---- MODULE Spec2Model ----
(***************************************************************************)
(* Model of the origin-resolution core of traceit:                         *)
(*   - VideoPipelineService (backend/app/services/video_pipeline_service)  *)
(*   - RouterService        (backend/app/services/router_service)          *)
(*   - LineageService       (backend/app/services/lineage_service)         *)
(* Python values are modelled as records; a dict key that is absent is the *)
(* value Absent, the Python value None is the value None.                  *)
(***************************************************************************)
EXTENDS Integers, Sequences, FiniteSets, TLC

VARIABLES
    t_audio,        \* composite check driver: audio_result argument
    t_visual,       \* composite check driver: visual_result argument
    t_ret,          \* composite check driver: outcome of the call
    frame_origins,  \* vote driver: the argument of _combine_frame_origins
    combined,       \* vote driver: outcome of _combine_frame_origins
    index,          \* router: rows of the local similarity index, per query
    redis,          \* router: the cache entries search:<hash>
    vector_calls,   \* router: calls of search_similar_content, per query
    perplexity_calls, \* router: calls of perplexity_service.search, per query
    coroutines,     \* router: coroutine objects created and never awaited
    search_log,     \* router: the completed search calls and what they returned
    all_results,    \* origin driver: a merged, ranked result list
    derived,        \* origin driver: the origins derived from it
    runs,           \* pipeline: number of runs started so far
    job,            \* pipeline: the locals of the running process_video call
    audio_task,     \* pipeline: the locals of _process_audio_track
    visual_task,    \* pipeline: the locals of the visual branch
    snapshots,      \* pipeline: the values written to video_progress:<job_id>
    fs,             \* pipeline: temporary files of this run that are on disk
    storage,        \* pipeline: frame objects of this run that are in storage
    video_cache,    \* pipeline: the cache entries video:<hash>
    audio_cache,    \* pipeline: the cache entry audio:<hash>
    video_result,   \* pipeline: the cache entry video_result:<job_id>
    lineage,        \* pipeline and lineage: the cache entries lineage:<id>
    neo4j_enabled,  \* lineage: whether NEO4J_URI is set
    graph,          \* lineage: the nodes and relationships of the graph store
    batch,          \* lineage: the locals of the build_multi_hop_graph call
    stored,         \* lineage: the store_origin calls made, per artifact
    lineage_ret,    \* lineage: what the last call of the service returned
    stream,         \* progress stream: position and events of video_progress_sse
    calls,          \* lineage: the store_origin calls in progress, per caller
    scheduler       \* scheduler: the class attributes, the clock and the loop tasks

compositeVars == <<t_audio, t_visual, t_ret>>
combineVars == <<frame_origins, combined>>
routerVars == <<index, redis, vector_calls, perplexity_calls, coroutines, search_log>>
originVars == <<all_results, derived>>
runVars == <<runs, job, audio_task, visual_task, snapshots>>
storeVars == <<fs, storage, video_cache, audio_cache, video_result, lineage>>
videoVars == <<runVars, storeVars>>
graphVars == <<neo4j_enabled, graph, batch, stored, lineage_ret>>
streamVars == <<stream>>
callVars == <<calls>>
schedulerVars == <<scheduler>>

vars == <<compositeVars, combineVars, routerVars, originVars, videoVars, graphVars,
          streamVars, callVars, schedulerVars>>

(***************************************************************************)
(* Python values                                                           *)
(***************************************************************************)
Absent == "<absent>"
None == "<None>"

\* The channel ids that occur; "" is the empty string.
Channels == {"A", "B"}
ChannelVals == Channels \cup {Absent, None, ""}

\* bool(x) of a channel id read with dict.get: None (also for an absent key)
\* and "" are falsy.
Truthy(ch) == ch \notin {Absent, None, ""}

Max2(a, b) == IF a >= b THEN a ELSE b

(***************************************************************************)
(* _check_if_composite                                                     *)
(***************************************************************************)
\* Largest matching_frames value the driver passes in.
MaxMatching == 3

\* A hit as _check_if_composite reads it: only channel_id matters.
\*   py = "dict": a dict ({} when channel_id is Absent); py = None: the value None.
CompositeHits == [py : {"dict"}, channel_id : ChannelVals]

\* An origin dict: found is Absent, FALSE or TRUE; hit is Absent or a hit;
\* matching_frames is Absent (-1) or a number.
NoHit == [py |-> Absent, channel_id |-> Absent]
NoneHit == [py |-> None, channel_id |-> Absent]
EmptyOrigin == [py |-> "dict", found |-> Absent, hit |-> NoHit, matching_frames |-> -1]
NoneOrigin == [py |-> None, found |-> Absent, hit |-> NoHit, matching_frames |-> -1]

Origins ==
    [py : {"dict"}, found : {Absent, "False", "True"},
     hit : CompositeHits \cup {NoHit}, matching_frames : -1 .. MaxMatching]

\* A branch result: None, the empty dict, an {"error": ...} dict, the audio
\* pipeline's cache-hit dict {"job_id", "result", "from_cache"} (no "origin"
\* key), or a dict with an "origin".
PlainResult(k) == [kind |-> k, origin |-> EmptyOrigin]
BranchResults ==
    {PlainResult(k) : k \in {"None", "empty", "error", "cached"}}
        \cup [kind : {"origin"}, origin : Origins]

\* bool(result): None and {} are falsy.
ResultTruthy(r) == r.kind \notin {"None", "empty"}

\* result.get("origin", {})
GetOrigin(r) == IF r.kind = "origin" THEN r.origin ELSE EmptyOrigin

\* origin.get("found", False)
GetFound(o) == o.found = "True"

\* origin.get("hit", {})
GetHit(o) == IF o.hit.py = Absent THEN [py |-> "dict", channel_id |-> Absent] ELSE o.hit

\* hit.get("channel_id"): None for an absent key
GetChannel(h) == IF h.channel_id = Absent THEN None ELSE h.channel_id

\* origin.get("matching_frames", 0)
GetMatchingFrames(o) == IF o.matching_frames = -1 THEN 0 ELSE o.matching_frames

Returned(b) == [raised |-> FALSE, value |-> b]
Raised == [raised |-> TRUE, value |-> FALSE]

\* Mutant: the matching_frames test is dropped.
CheckIfCompositeNoFrames(audio_result, visual_result) ==
    IF ~ResultTruthy(audio_result) \/ ~ResultTruthy(visual_result)
    THEN Returned(FALSE)
    ELSE LET audio_origin == GetOrigin(audio_result)
             visual_origin == GetOrigin(visual_result)
         IN  IF ~GetFound(audio_origin) \/ ~GetFound(visual_origin)
             THEN Returned(FALSE)
             ELSE LET audio_channel == GetChannel(GetHit(audio_origin))
                      visual_channel == GetChannel(GetHit(visual_origin))
                  IN  IF ~Truthy(audio_channel) \/ ~Truthy(visual_channel)
                      THEN Returned(FALSE)
                      ELSE Returned(audio_channel # visual_channel)

\* Mutant: the found flags are not read.
CheckIfCompositeNoFound(audio_result, visual_result) ==
    IF ~ResultTruthy(audio_result) \/ ~ResultTruthy(visual_result)
    THEN Returned(FALSE)
    ELSE LET audio_channel == GetChannel(GetHit(GetOrigin(audio_result)))
             visual_channel == GetChannel(GetHit(GetOrigin(visual_result)))
         IN  Returned(Truthy(audio_channel) /\ Truthy(visual_channel)
                      /\ audio_channel # visual_channel)

\* Mutant: an error dict of a branch makes the check raise.
CheckIfCompositeStrict(audio_result, visual_result) ==
    IF audio_result.kind = "error" \/ visual_result.kind = "error"
    THEN Raised
    ELSE Returned(FALSE)

\* VideoPipelineService._check_if_composite. An attribute access on None
\* (origin or hit present with the value None) raises AttributeError.
CheckIfComposite(audio_result, visual_result) ==
    IF ~ResultTruthy(audio_result) \/ ~ResultTruthy(visual_result)
    THEN Returned(FALSE)
    ELSE LET audio_origin == GetOrigin(audio_result)
             visual_origin == GetOrigin(visual_result)
         IN  IF audio_origin.py = None \/ visual_origin.py = None
             THEN Raised
             ELSE IF ~GetFound(audio_origin) \/ ~GetFound(visual_origin)
             THEN Returned(FALSE)
             ELSE IF GetHit(audio_origin).py = None \/ GetHit(visual_origin).py = None
             THEN Raised
             ELSE LET audio_channel == GetChannel(GetHit(audio_origin))
                      visual_channel == GetChannel(GetHit(visual_origin))
                  IN  IF ~Truthy(audio_channel) \/ ~Truthy(visual_channel)
                      THEN Returned(FALSE)
                      ELSE Returned(audio_channel # visual_channel
                                    /\ GetMatchingFrames(visual_origin) >= 2)

NotCalled == [raised |-> FALSE, value |-> FALSE, called |-> FALSE]

\* The driver of TestCompositeMediaChecker: the call on a pair of branch results.
CallCheckIfComposite ==
    /\ ~t_ret.called
    /\ LET r == CheckIfComposite(t_audio, t_visual)
       IN  t_ret' = [raised |-> r.raised, value |-> r.value, called |-> TRUE]
    /\ UNCHANGED <<t_audio, t_visual, combineVars, routerVars, originVars, videoVars, graphVars, streamVars, callVars, schedulerVars>>

(***************************************************************************)
(* _combine_frame_origins                                                  *)
(***************************************************************************)
\* Keyframes extracted per video: start, middle, end.
KeyframeCount == 3
\* Hits requested per frame (top_k).
TopK == 3
\* Largest number of hits over all frames that the vote driver builds.
MaxHits == 4

\* A hit of a frame: channel_id and confidence (-1: the key is absent).
VoteHits ==
    [py : {"dict"}, channel_id : Channels, confidence : {-1, 0, 1}]
        \cup {[py |-> "dict", channel_id |-> None, confidence |-> 1]}

\* hit.get("confidence", 0)
GetConfidence(h) == IF h.confidence = -1 THEN 0 ELSE h.confidence

\* all_hits: the hits of all frames, in frame order.
RECURSIVE AllHits(_)
AllHits(fo) ==
    IF fo = << >> THEN << >> ELSE Head(fo).hits \o AllHits(Tail(fo))

\* The keys of channel_counts in insertion order: the truthy channel ids in
\* the order they are first seen.
RECURSIVE CountKeys(_, _)
CountKeys(hits, seen) ==
    IF hits = << >> THEN seen
    ELSE LET c == GetChannel(Head(hits))
         IN  IF Truthy(c) /\ \A i \in 1 .. Len(seen) : seen[i] # c
             THEN CountKeys(Tail(hits), Append(seen, c))
             ELSE CountKeys(Tail(hits), seen)

\* channel_counts[c]: incremented once for every hit of channel c.
RECURSIVE HitVotes(_, _)
HitVotes(hits, c) ==
    IF hits = << >> THEN 0
    ELSE (IF GetChannel(Head(hits)) = c THEN 1 ELSE 0) + HitVotes(Tail(hits), c)

ChannelCounts(fo, c) == HitVotes(AllHits(fo), c)

\* channel_confidence[c]: max over the channel's hits, starting from 0.
RECURSIVE ChannelConfidence(_, _)
ChannelConfidence(hits, c) ==
    IF hits = << >> THEN 0
    ELSE LET rest == ChannelConfidence(Tail(hits), c)
         IN  IF GetChannel(Head(hits)) = c
             THEN Max2(GetConfidence(Head(hits)), rest)
             ELSE rest

\* Mutant: the first channel seen wins whatever the counts.
FirstChannel(fo, keys, best) ==
    IF keys = << >> THEN best
    ELSE [channel |-> Head(keys), count |-> ChannelCounts(fo, Head(keys))]

\* The loop over channel_counts.items(): a strictly larger count replaces
\* the best so far.
RECURSIVE BestChannel(_, _, _)
BestChannel(fo, keys, best) ==
    IF keys = << >> THEN best
    ELSE LET count == ChannelCounts(fo, Head(keys))
         IN  IF count > best.count
             THEN BestChannel(fo, Tail(keys), [channel |-> Head(keys), count |-> count])
             ELSE BestChannel(fo, Tail(keys), best)

\* The loop over all_hits that keeps the channel's hit of highest confidence
\* (the first one on equal confidence).
RECURSIVE BestHit(_, _, _)
BestHit(hits, channel, best_hit) ==
    IF hits = << >> THEN best_hit
    ELSE IF GetChannel(Head(hits)) = channel
              /\ (best_hit.py = None
                  \/ GetConfidence(Head(hits)) > GetConfidence(best_hit))
         THEN BestHit(Tail(hits), channel, Head(hits))
         ELSE BestHit(Tail(hits), channel, best_hit)

NoBest == [channel |-> None, count |-> 0]
NoBestHit == [py |-> None, channel_id |-> Absent, confidence |-> -1]

\* VideoPipelineService._combine_frame_origins
CombineFrameOrigins(fo) ==
    LET all_hits == AllHits(fo)
        best == BestChannel(fo, CountKeys(all_hits, << >>), NoBest)
    IN  IF best.count < 2
        THEN [kind |-> "origin",
              origin |-> [py |-> "dict", found |-> "False", confidence |-> 0,
                          hit |-> NoHit, matching_frames |-> -1],
              confidence |-> 0]
        ELSE [kind |-> "origin",
              origin |-> [py |-> "dict", found |-> "True",
                          confidence |-> ChannelConfidence(all_hits, best.channel),
                          hit |-> BestHit(all_hits, best.channel, NoBestHit),
                          matching_frames |-> best.count],
              confidence |-> ChannelConfidence(all_hits, best.channel)]

TotalHits(fo) == Len(AllHits(fo))

\* The vote driver: builds any list of at most KeyframeCount frame origins
\* with at most TopK hits each (AddFrame, AddHit), then calls
\* _combine_frame_origins on it.
AddFrame ==
    /\ ~combined.called
    /\ Len(frame_origins) < KeyframeCount
    /\ frame_origins' = Append(frame_origins, [hits |-> << >>])
    /\ UNCHANGED <<combined, compositeVars, routerVars, originVars, videoVars, graphVars, streamVars, callVars, schedulerVars>>

AddHit ==
    /\ ~combined.called
    /\ frame_origins # << >>
    /\ TotalHits(frame_origins) < MaxHits
    /\ LET n == Len(frame_origins)
       IN  /\ Len(frame_origins[n].hits) < TopK
           /\ \E h \in VoteHits :
                frame_origins' =
                    [frame_origins EXCEPT ![n].hits = Append(@, h)]
    /\ UNCHANGED <<combined, compositeVars, routerVars, originVars, videoVars, graphVars, streamVars, callVars, schedulerVars>>

CallCombineFrameOrigins ==
    /\ ~combined.called
    /\ combined' = [called |-> TRUE, result |-> CombineFrameOrigins(frame_origins)]
    /\ UNCHANGED <<frame_origins, compositeVars, routerVars, originVars, videoVars, graphVars, streamVars, callVars, schedulerVars>>

(***************************************************************************)
(* RouterService.search                                                    *)
(***************************************************************************)
Queries == {"q1", "q2"}
RouterChannels == {"A", "B", "C", "D"}

\* limit and similarity_threshold (in hundredths) passed to the local index.
LocalLimit == 5
LocalThreshold == 70
\* Fewer local hits than this, or a maximum similarity (in hundredths) below
\* MinSimilarity, make the router call the external search.
MinLocalHits == 3
MinSimilarity == 80
\* Length of response["origins"] and response["results"].
MaxOrigins == 3
MaxRanked == 10
\* Number of search calls the driver makes.
MaxSearches == 4

\* hashlib.sha256(query.encode()).hexdigest(): a digest, distinct for the
\* queries modelled.
Sha256(text) == <<"sha256", text>>
SearchKey(query_hash) == <<"search", query_hash>>
PerplexityKey(query_hash) == <<"perplexity", query_hash>>

\* Timestamps are ISO strings compared as strings; modelled as 1, 2, ... in
\* that order, 0 for None. "9999-12-31", the sort key of a missing
\* timestamp, is larger than all of them.
NoTimestamp == 0
FarFuture == 9999

Take(seq, n) == IF Len(seq) <= n THEN seq ELSE SubSeq(seq, 1, n)

\* VectorService.search_similar_content: the rows at least `threshold`
\* similar, most similar first, at most `limit` of them. The rows of `index`
\* are kept ordered by similarity as the ORDER BY returns them.
RECURSIVE FilterSimilar(_, _)
FilterSimilar(rows, threshold) ==
    IF rows = << >> THEN << >>
    ELSE IF Head(rows).similarity >= threshold
         THEN <<Head(rows)>> \o FilterSimilar(Tail(rows), threshold)
         ELSE FilterSimilar(Tail(rows), threshold)

SearchSimilarContent(rows, limit, threshold) ==
    Take(FilterSimilar(rows, threshold), limit)

RECURSIVE MaxSimilarity(_)
MaxSimilarity(results) ==
    IF results = << >> THEN 0
    ELSE Max2(Head(results).similarity, MaxSimilarity(Tail(results)))

\* Mutant: the hit-count test is dropped from the decision.
NeedPerplexityNoCount(local_results, force_perplexity) ==
    force_perplexity
        \/ (local_results # << >> /\ MaxSimilarity(local_results) < MinSimilarity)

\* Step 2 of search: need_perplexity.
NeedPerplexity(local_results, force_perplexity) ==
    LET need == force_perplexity \/ Len(local_results) < MinLocalHits
    IN  IF ~need /\ local_results # << >>
        THEN MaxSimilarity(local_results) < MinSimilarity
        ELSE need

\* Step 4: the merged entry of a local result. Scores are kept as integers:
\* 500 * similarity * (1 + 0.2 * engagement), similarity in hundredths / 100.
LocalEntry(result) ==
    [source |-> "local", url |-> result.source_url,
     timestamp |-> result.timestamp, similarity |-> result.similarity,
     engagement |-> result.engagement_score, channel_id |-> result.channel_id,
     score |-> result.similarity * (5 + result.engagement_score)]

\* Step 4: the merged entry of an external result:
\* 500 * (0.6 * relevance + 0.4 * freshness), both in hundredths / 100.
PerplexityEntry(result) ==
    [source |-> "perplexity", url |-> result.url,
     timestamp |-> result.published_date, similarity |-> result.relevance_score,
     engagement |-> result.engagement_score, channel_id |-> result.domain,
     score |-> 3 * result.relevance_score + 2 * result.freshness_score]

RECURSIVE MapLocal(_)
MapLocal(results) ==
    IF results = << >> THEN << >>
    ELSE <<LocalEntry(Head(results))>> \o MapLocal(Tail(results))

RECURSIVE MapPerplexity(_)
MapPerplexity(results) ==
    IF results = << >> THEN << >>
    ELSE <<PerplexityEntry(Head(results))>> \o MapPerplexity(Tail(results))

\* Step 5: all_results.sort(key=score, reverse=True); the sort is stable.
RECURSIVE InsertByScore(_, _)
InsertByScore(sorted, e) ==
    IF sorted = << >> THEN <<e>>
    ELSE IF Head(sorted).score >= e.score
         THEN <<Head(sorted)>> \o InsertByScore(Tail(sorted), e)
         ELSE <<e>> \o sorted

RECURSIVE SortByScore(_, _)
SortByScore(results, sorted) ==
    IF results = << >> THEN sorted
    ELSE SortByScore(Tail(results), InsertByScore(sorted, Head(results)))

\* Step 6, the loop: sources maps a channel to its earliest result; a channel
\* keeps the place of its first insertion. Only results with a channel id and
\* a timestamp are looked at.
IndexOfChannel(sources, channel) ==
    IF \E i \in 1 .. Len(sources) : sources[i].channel_id = channel
    THEN CHOOSE i \in 1 .. Len(sources) : sources[i].channel_id = channel
    ELSE 0

RECURSIVE EarliestPerChannel(_, _)
EarliestPerChannel(results, sources) ==
    IF results = << >> THEN sources
    ELSE LET result == Head(results)
             channel == result.channel_id
             i == IndexOfChannel(sources, channel)
         IN  IF Truthy(channel) /\ result.timestamp # NoTimestamp
             THEN IF i = 0
                  THEN EarliestPerChannel(Tail(results), Append(sources, result))
                  ELSE IF sources[i].timestamp > result.timestamp
                  THEN EarliestPerChannel(Tail(results), [sources EXCEPT ![i] = result])
                  ELSE EarliestPerChannel(Tail(results), sources)
             ELSE EarliestPerChannel(Tail(results), sources)

\* The key of origins.sort: the timestamp, "9999-12-31" when it is missing.
TimestampKey(x) == IF x.timestamp # NoTimestamp THEN x.timestamp ELSE FarFuture

RECURSIVE InsertByTimestamp(_, _)
InsertByTimestamp(sorted, e) ==
    IF sorted = << >> THEN <<e>>
    ELSE IF TimestampKey(Head(sorted)) <= TimestampKey(e)
         THEN <<Head(sorted)>> \o InsertByTimestamp(Tail(sorted), e)
         ELSE <<e>> \o sorted

RECURSIVE SortByTimestamp(_, _)
SortByTimestamp(origins, sorted) ==
    IF origins = << >> THEN sorted
    ELSE SortByTimestamp(Tail(origins), InsertByTimestamp(sorted, Head(origins)))

\* Step 6 and the cut to response["origins"].
DeriveOrigins(results) ==
    Take(SortByTimestamp(EarliestPerChannel(results, << >>), << >>), MaxOrigins)

\* Step 7: the mean of the top 3 (or fewer) scores, as <<sum, count>>.
RECURSIVE SumScores(_)
SumScores(results) ==
    IF results = << >> THEN 0 ELSE Head(results).score + SumScores(Tail(results))

Confidence(results) ==
    IF results = << >> THEN <<0, 1>>
    ELSE <<SumScores(Take(results, 3)), Len(Take(results, 3))>>

\* An awaitable that was created and not awaited: a coroutine object. It is
\* truthy, like every object that defines neither __bool__ nor __len__.
Coroutine(of, key, id) == [py |-> "coroutine", of |-> of, key |-> key, id |-> id]
PyTruthy(v) == v.py = "coroutine" \/ (v.py = "dict" /\ ~v.empty)

\* The response of a cache miss (steps 1 to 7), given what the local index
\* and, when it is called, the external search return.
SearchResponse(query, query_type, force_perplexity, local_results, perplexity_data) ==
    LET need_perplexity == NeedPerplexity(local_results, force_perplexity)
        has_results == need_perplexity /\ perplexity_data.py = "dict"
                           /\ perplexity_data.has_results
        perplexity_results == IF has_results THEN perplexity_data.results ELSE << >>
        merged == SortByScore(MapLocal(local_results) \o MapPerplexity(perplexity_results),
                              << >>)
    IN  [py |-> "dict", empty |-> FALSE,
         query |-> query, query_type |-> query_type, query_hash |-> Sha256(query),
         perplexity_used |-> has_results,
         results |-> Take(merged, MaxRanked),
         origins |-> DeriveOrigins(merged),
         confidence |-> Confidence(merged)]

\* What perplexity_service.search may give back: a dict with or without
\* "results".
NoPerplexityData == [py |-> "dict", has_results |-> FALSE, results |-> << >>]
PerplexityData ==
    {NoPerplexityData,
     [py |-> "dict", has_results |-> TRUE,
      results |-> <<[url |-> "u9", snippet |-> "s", relevance_score |-> 85,
                     freshness_score |-> 75, published_date |-> 2,
                     domain |-> "D", engagement_score |-> 4]>>]}
\* perplexity_service.search raising (raise_for_status, a transport error):
\* line 68 is in no try block, so the exception leaves search.
PerplexityRaised == [py |-> "exception", has_results |-> FALSE, results |-> << >>]
SearchRaised(e) == [py |-> "raise", error |-> e]

Bump(f, q) == [f EXCEPT ![q] = @ + 1]

SearchKeys == {SearchKey(Sha256(q)) : q \in Queries}

\* RouterService.search(db, query, query_type, force_perplexity).
\* redis_service.get_cache is a coroutine function and is called without
\* await (line 34): cached_result is a coroutine object, which is truthy, so
\* the call returns it at line 36. The rest of the body is what a falsy
\* cached_result would run; set_cache (line 169) is not awaited either.
RouterSearch(query, query_type, force_perplexity) ==
    /\ Len(search_log) < MaxSearches
    /\ LET query_hash == Sha256(query)
           cache_key == SearchKey(query_hash)
           cached_result == Coroutine("get_cache", cache_key, coroutines + 1)
       IN  IF PyTruthy(cached_result)
           THEN /\ coroutines' = coroutines + 1
                /\ search_log' = Append(search_log,
                       [query |-> query, force |-> force_perplexity,
                        cached |-> redis[cache_key] # Absent,
                        vector_called |-> FALSE, perplexity_called |-> FALSE,
                        perplexity_raised |-> FALSE,
                        ret |-> cached_result])
                /\ UNCHANGED <<index, redis, vector_calls, perplexity_calls>>
           ELSE LET local_results ==
                        SearchSimilarContent(index[query], LocalLimit, LocalThreshold)
                    need == NeedPerplexity(local_results, force_perplexity)
                IN  \E perplexity_data \in PerplexityData \cup {PerplexityRaised} :
                        LET raised == need /\ perplexity_data = PerplexityRaised
                        IN  /\ vector_calls' = Bump(vector_calls, query)
                            /\ perplexity_calls' =
                                   IF need THEN Bump(perplexity_calls, query)
                                   ELSE perplexity_calls
                            /\ coroutines' = IF raised THEN coroutines + 1
                                             ELSE coroutines + 2
                            /\ search_log' = Append(search_log,
                                   [query |-> query, force |-> force_perplexity,
                                    cached |-> redis[cache_key] # Absent,
                                    vector_called |-> TRUE,
                                    perplexity_called |-> need,
                                    perplexity_raised |-> raised,
                                    ret |-> IF raised
                                            THEN SearchRaised("HTTPStatusError")
                                            ELSE SearchResponse(query, query_type,
                                                     force_perplexity, local_results,
                                                     perplexity_data)])
                            /\ UNCHANGED <<index, redis>>
    /\ UNCHANGED <<compositeVars, combineVars, originVars, videoVars, graphVars, streamVars, callVars, schedulerVars>>

Search == \E query \in Queries, force_perplexity \in BOOLEAN :
              RouterSearch(query, "light", force_perplexity)

\* The rows the local index may hold for a query, most similar first.
Row(url, channel, ts, sim) ==
    [source_url |-> url, channel_id |-> channel, timestamp |-> ts,
     similarity |-> sim, engagement_score |-> 1]
IndexRows ==
    {<< >>,
     <<Row("u1", "A", 1, 90), Row("u2", "B", 2, 85)>>,
     <<Row("u1", "A", 2, 90), Row("u2", "A", 1, 85), Row("u3", "B", 3, 80)>>,
     <<Row("u1", "A", 1, 79), Row("u2", "B", 2, 75), Row("u3", "C", 3, 72),
       Row("u4", "C", 0, 60)>>}

(***************************************************************************)
(* The origin driver: step 6 of search on any merged list                  *)
(***************************************************************************)
\* Largest merged list the origin driver builds.
MaxResults == 4
\* Timestamps of the merged results: 0 (None), 1 .. MaxTimestamp.
MaxTimestamp == 2

\* Adds one result to the merged list; every entry has the same score, so the
\* list is ranked as step 5 leaves it. The url tells the entries apart.
AddResult ==
    /\ ~derived.called
    /\ Len(all_results) < MaxResults
    /\ \E channel \in RouterChannels \cup {None}, ts \in 0 .. MaxTimestamp :
           all_results' = Append(all_results,
               [source |-> "local", url |-> Len(all_results) + 1,
                timestamp |-> ts, similarity |-> 90, engagement |-> 0,
                channel_id |-> channel, score |-> 450])
    /\ UNCHANGED <<derived, compositeVars, combineVars, routerVars, videoVars, graphVars, streamVars, callVars, schedulerVars>>

CallDeriveOrigins ==
    /\ ~derived.called
    /\ derived' = [called |-> TRUE, origins |-> DeriveOrigins(all_results)]
    /\ UNCHANGED <<all_results, compositeVars, combineVars, routerVars, videoVars, graphVars, streamVars, callVars, schedulerVars>>

(***************************************************************************)
(* process_video and process_video_with_progress                           *)
(*                                                                         *)
(* Runs follow one another. fs and storage hold what the current run put   *)
(* on disk and into object storage (a downloaded video and every uploaded  *)
(* object get a fresh uuid name); the caches and the lineage records       *)
(* persist from run to run.                                                *)
(***************************************************************************)
\* Runs of the pipeline that are started, one after the other.
MaxRuns == 2
\* Status polls that fit into the 300 seconds a run waits for the GPU job.
MaxPolls == 2

\* The caller's arguments: neither file_path nor url, a file_path, or a url.
Inputs == {"none", "file_path", "url"}

\* Temporary files, by the name the ffmpeg service gives them.
VideoFile == <<"video", 0>>
AudioFile == <<"audio", 0>>
FrameFile(i) == <<"frame", i>>
Frames(n) == {FrameFile(i) : i \in 0 .. n - 1}

\* json.dumps on set_cache and json.loads on get_cache; a missing key reads None.
NoEntry == [py |-> Absent]
\* Mutant: the stored result loses its hash.
DumpsWithoutHash(value) ==
    [py |-> "json", value |-> [value EXCEPT !.hash = Absent]]
\* json.dumps and json.loads of set_cache and get_cache: the stored text and
\* the dict read back from it.
Dumps(value) == [py |-> "json", value |-> value]
Loads(entry) == entry.value

\* _get_video_hash: sha256 of "<md5 of frame 0>:<md5 of the audio>", with ""
\* for the audio when none could be extracted; the md5 of the file when no
\* frame could be extracted, which raises when the file cannot be read.
HashKinds == {"frame+audio", "frame", "file"}
GetVideoHash(frames, audio_path, readable) ==
    IF ~frames
    THEN IF readable THEN [raised |-> FALSE, value |-> "file"]
         ELSE [raised |-> TRUE, value |-> "OSError"]
    ELSE IF audio_path THEN [raised |-> FALSE, value |-> "frame+audio"]
         ELSE [raised |-> FALSE, value |-> "frame"]

\* Branch results as the branches build them.
NoBranchResult == [kind |-> "None", origin |-> EmptyOrigin]
ErrorResult(e) == [kind |-> "error", origin |-> EmptyOrigin, error |-> e]

\* result.get("error")
GetError(r) == IF r.kind = "error" THEN r.error ELSE ""

\* result.get("origin"): None when the key is absent
OriginOrNone(r) == IF r.kind = "origin" THEN r.origin ELSE NoneOrigin

\* result.get("confidence", 0)
ResultConfidence(r) == IF r.kind = "origin" THEN r.confidence ELSE 0

\* AudioPipelineService.process_audio on the extracted track. whisper is what
\* the transcription gives: too little to search with, enough to search with,
\* or an exception. With enough to search with, _find_music_origin and
\* _find_speech_origin call router_service.query; RouterService defines only
\* search, so the call raises AttributeError, which process_audio turns into
\* an error dict.
AudioNotFound ==
    [kind |-> "origin",
     origin |-> [py |-> "dict", found |-> "False", confidence |-> 0,
                 hit |-> NoHit, matching_frames |-> -1],
     confidence |-> 0]
AudioCacheHit(cached_result) ==
    [kind |-> "cached", origin |-> EmptyOrigin, result |-> cached_result]
WhisperResults == {"insufficient", "sufficient", "raises"}
ProcessAudio(cache, whisper) ==
    IF cache.py # Absent
    THEN [result |-> AudioCacheHit(Loads(cache)), cache |-> cache]
    ELSE IF whisper = "raises"
    THEN [result |-> ErrorResult("whisper"), cache |-> cache]
    ELSE IF whisper = "insufficient"
    THEN [result |-> AudioNotFound, cache |-> Dumps(AudioNotFound)]
    ELSE [result |-> ErrorResult("AttributeError: query"), cache |-> cache]

\* _find_visual_origins: for the first embedding it calls
\* vector_service.search_by_embedding, which VectorService does not define
\* (AttributeError); without embeddings the loop body never runs.
FindVisualOrigins(embeddings) ==
    IF embeddings > 0
    THEN [raised |-> TRUE, value |-> << >>]
    ELSE [raised |-> FALSE, value |-> [i \in 1 .. embeddings |-> << >>]]

\* What get_job_status returns: the error dict of the service (success False,
\* no status key) or the JSON body of the GPU service.
StatusTexts == {Absent, "COMPLETED", "FAILED", "CANCELLED", "IN_QUEUE", "IN_PROGRESS"}
JobStatuses == [success : BOOLEAN, status : StatusTexts]
\* What get_job_result returns.
JobResults == [success : BOOLEAN, embeddings : 0 .. KeyframeCount]

\* The locals of a run.
NoResult == [py |-> None]
NoRet == [kind |-> "none"]
ErrorRet(with_job_id, e) == [kind |-> "error", job_id |-> with_job_id, error |-> e]
ResultRet(result) == [kind |-> "result", result |-> result]
CacheRet(cached_result) == [kind |-> "from_cache", result |-> cached_result]

IdleJob ==
    [variant |-> "none", pc |-> "idle", job_id |-> 0, temp_files |-> {},
     video_hash |-> Absent, audio_result |-> NoBranchResult,
     visual_result |-> NoBranchResult, result |-> NoResult, ret |-> NoRet]
IdleAudio == [pc |-> "idle", result |-> NoBranchResult]
\* wait is what the last pass of wait_for_completion read and did.
NoStatus == [success |-> FALSE, status |-> Absent]
NoWait == [ending |-> "none", error |-> Absent, status |-> NoStatus]
IdleVisual ==
    [pc |-> "idle", frame_paths |-> {}, frame_urls |-> 0, polls |-> 0,
     result |-> NoBranchResult, wait |-> NoWait]

\* The result dict of process_video (lines 106-119).
BuildResult(job_id, audio_result, visual_result, is_composite, video_hash) ==
    [py |-> "dict", job_id |-> job_id,
     origins |-> [audio |-> IF ResultTruthy(audio_result)
                            THEN OriginOrNone(audio_result) ELSE NoneOrigin,
                  visual |-> IF ResultTruthy(visual_result)
                             THEN OriginOrNone(visual_result) ELSE NoneOrigin],
     is_composite |-> is_composite,
     confidence |-> [audio |-> IF ResultTruthy(audio_result)
                               THEN ResultConfidence(audio_result) ELSE 0,
                     visual |-> IF ResultTruthy(visual_result)
                                THEN ResultConfidence(visual_result) ELSE 0],
     hash |-> video_hash]

\* store_origin as the pipeline calls it: the record written to lineage:<hash>.
LineageRecord(video_hash, is_composite, audio_origin, visual_origin) ==
    [py |-> "json", artifact_id |-> video_hash, artifact_type |-> "video",
     is_composite |-> is_composite,
     audio_origin |-> audio_origin, visual_origin |-> visual_origin]

\* Mutant: the await returns when the audio task has.
GatherAudio(a, v) == a.pc = "done"

\* Mutant: the await returns as soon as one task has.
GatherEither(a, v) == a.pc = "done" \/ v.pc = "done"

\* asyncio.gather(audio_task, visual_task) returns when both tasks have.
Gather(a, v) == a.pc = "done" /\ v.pc = "done"

\* The finally block: every path in temp_files is deleted.
Finally(files, temp_files) == files \ temp_files

\* A new call resets what the model tracks per run.
NewRun(variant, input) ==
    /\ job.pc \in {"idle", "done"}
    /\ runs < MaxRuns
    /\ runs' = runs + 1
    /\ fs' = {}
    /\ storage' = 0
    /\ video_result' = NoEntry
    /\ audio_task' = IdleAudio
    /\ visual_task' = IdleVisual
    /\ job' = IF input = "none"
              THEN [IdleJob EXCEPT !.variant = variant, !.pc = "done",
                        !.job_id = runs + 1,
                        !.ret = ErrorRet(FALSE, "Either file_path or url must be provided")]
              ELSE [IdleJob EXCEPT !.variant = variant, !.job_id = runs + 1,
                        !.pc = IF input = "url" THEN "download" ELSE "hash"]

\* download_video: the file, None after an HTTP error, or None after an
\* exception that leaves what was written so far on disk.
Downloads == {"ok", "http_error", "interrupted"}

(* --- process_video --- *)
ProcessVideo_Start(input) ==
    /\ NewRun("plain", input)
    /\ snapshots' = << >>
    /\ UNCHANGED <<video_cache, audio_cache, lineage>>
    /\ UNCHANGED <<compositeVars, combineVars, routerVars, originVars, graphVars, streamVars, callVars, schedulerVars>>

ProcessVideo_Download ==
    /\ job.variant = "plain" /\ job.pc = "download"
    /\ \E d \in Downloads :
        IF d = "ok"
        THEN /\ job' = [job EXCEPT !.pc = "hash", !.temp_files = {VideoFile}]
             /\ fs' = fs \cup {VideoFile}
        ELSE /\ job' = [job EXCEPT !.pc = "done",
                            !.ret = ErrorRet(FALSE, "Failed to download video from URL")]
             /\ fs' = Finally(IF d = "interrupted" THEN fs \cup {VideoFile} ELSE fs,
                              job.temp_files)
    /\ UNCHANGED <<runs, audio_task, visual_task, snapshots>>
    /\ UNCHANGED <<storage, video_cache, audio_cache, video_result, lineage>>
    /\ UNCHANGED <<compositeVars, combineVars, routerVars, originVars, graphVars, streamVars, callVars, schedulerVars>>

\* Lines 71-97: metadata, hash, cache lookup, and the two tasks.
ProcessVideo_Hash ==
    /\ job.variant = "plain" /\ job.pc = "hash"
    /\ \E frames \in BOOLEAN, audio_path \in BOOLEAN, readable \in BOOLEAN :
        LET video_hash == GetVideoHash(frames, audio_path, readable)
        IN  IF video_hash.raised
            THEN /\ job' = [job EXCEPT !.pc = "done",
                                !.ret = ErrorRet(TRUE, video_hash.value)]
                 /\ fs' = Finally(fs, job.temp_files)
                 /\ UNCHANGED <<audio_task, visual_task>>
            ELSE LET cached_result == video_cache[video_hash.value]
                 IN  IF cached_result.py # Absent
                     THEN /\ job' = [job EXCEPT !.pc = "done",
                                         !.video_hash = video_hash.value,
                                         !.ret = CacheRet(Loads(cached_result))]
                          /\ fs' = Finally(fs, job.temp_files)
                          /\ UNCHANGED <<audio_task, visual_task>>
                     ELSE /\ job' = [job EXCEPT !.pc = "gather",
                                         !.video_hash = video_hash.value]
                          /\ audio_task' = [audio_task EXCEPT !.pc = "extract_audio"]
                          /\ visual_task' = [visual_task EXCEPT !.pc = "extract_keyframes"]
                          /\ fs' = fs
    /\ UNCHANGED <<runs, snapshots>>
    /\ UNCHANGED <<storage, video_cache, audio_cache, video_result, lineage>>
    /\ UNCHANGED <<compositeVars, combineVars, routerVars, originVars, graphVars, streamVars, callVars, schedulerVars>>

(* --- _process_audio_track, called by both variants --- *)
AudioTrack_Extract ==
    /\ audio_task.pc = "extract_audio"
    /\ \E audio_path \in BOOLEAN :
        IF audio_path
        THEN /\ audio_task' = [audio_task EXCEPT !.pc = "process_audio"]
             /\ fs' = fs \cup {AudioFile}
        ELSE /\ audio_task' = [audio_task EXCEPT !.pc = "done",
                                   !.result = ErrorResult("No audio track found in video")]
             /\ fs' = fs
    /\ UNCHANGED <<runs, job, visual_task, snapshots>>
    /\ UNCHANGED <<storage, video_cache, audio_cache, video_result, lineage>>
    /\ UNCHANGED <<compositeVars, combineVars, routerVars, originVars, graphVars, streamVars, callVars, schedulerVars>>

AudioTrack_Process ==
    /\ audio_task.pc = "process_audio"
    /\ \E whisper \in WhisperResults :
        LET audio_result == ProcessAudio(audio_cache, whisper)
        IN  /\ audio_cache' = audio_result.cache
            /\ audio_task' = [audio_task EXCEPT !.pc = "done",
                                  !.result = audio_result.result]
    /\ fs' = fs \ {AudioFile}
    /\ UNCHANGED <<runs, job, visual_task, snapshots>>
    /\ UNCHANGED <<storage, video_cache, video_result, lineage>>
    /\ UNCHANGED <<compositeVars, combineVars, routerVars, originVars, graphVars, streamVars, callVars, schedulerVars>>

(* --- _process_visual_frames, the visual task of process_video --- *)
VisualFrames_Extract ==
    /\ job.variant = "plain" /\ visual_task.pc = "extract_keyframes"
    /\ \E n \in 0 .. KeyframeCount :
        IF n = 0
        THEN /\ visual_task' = [visual_task EXCEPT !.pc = "done",
                                    !.result = ErrorResult("Failed to extract frames from video")]
             /\ fs' = fs
        ELSE /\ visual_task' = [visual_task EXCEPT !.pc = "upload",
                                    !.frame_paths = Frames(n)]
             /\ fs' = fs \cup Frames(n)
    /\ UNCHANGED <<runs, job, audio_task, snapshots>>
    /\ UNCHANGED <<storage, video_cache, audio_cache, video_result, lineage>>
    /\ UNCHANGED <<compositeVars, combineVars, routerVars, originVars, graphVars, streamVars, callVars, schedulerVars>>

\* The upload loop: each frame is stored under a fresh name, or not at all.
VisualFrames_Upload ==
    /\ job.variant = "plain" /\ visual_task.pc = "upload"
    /\ \E frame_urls \in 0 .. Cardinality(visual_task.frame_paths) :
        /\ storage' = storage + frame_urls
        /\ IF frame_urls = 0
           THEN /\ visual_task' = [visual_task EXCEPT !.pc = "done",
                                       !.result = ErrorResult("Failed to upload frames for processing")]
                /\ fs' = Finally(fs, visual_task.frame_paths)
           ELSE /\ visual_task' = [visual_task EXCEPT !.pc = "submit",
                                       !.frame_urls = frame_urls]
                /\ fs' = fs
    /\ UNCHANGED <<runs, job, audio_task, snapshots>>
    /\ UNCHANGED <<video_cache, audio_cache, video_result, lineage>>
    /\ UNCHANGED <<compositeVars, combineVars, routerVars, originVars, graphVars, streamVars, callVars, schedulerVars>>

VisualFrames_Submit ==
    /\ job.variant = "plain" /\ visual_task.pc = "submit"
    /\ \E success \in BOOLEAN :
        IF success
        THEN /\ visual_task' = [visual_task EXCEPT !.pc = "wait", !.polls = 0]
             /\ fs' = fs
        ELSE /\ visual_task' = [visual_task EXCEPT !.pc = "done",
                                    !.result = ErrorResult("Failed to submit GPU batch job")]
             /\ fs' = Finally(fs, visual_task.frame_paths)
    /\ UNCHANGED <<runs, job, audio_task, snapshots>>
    /\ UNCHANGED <<storage, video_cache, audio_cache, video_result, lineage>>
    /\ UNCHANGED <<compositeVars, combineVars, routerVars, originVars, graphVars, streamVars, callVars, schedulerVars>>

\* RunPodService.wait_for_completion, one pass of its loop: the timeout
\* dict once the time is up, the status itself when it carries no true
\* success, the job result on COMPLETED, a failure dict on FAILED or
\* CANCELLED, and otherwise another pass after the sleep.
FailedJob == [success |-> FALSE, embeddings |-> 0]
\* ending names the return statement taken (line 184: "status", line 187:
\* "completed", lines 190-194: "failed", lines 199-203: "timeout"); error is
\* the error text of the dict returned, Absent when it has none.
WaitForCompletion(polls, status, job_result) ==
    IF polls >= MaxPolls
    THEN [waiting |-> FALSE, value |-> FailedJob, ending |-> "timeout",
          error |-> "Timeout after 300 seconds"]
    ELSE IF ~status.success
    THEN [waiting |-> FALSE, value |-> FailedJob, ending |-> "status",
          error |-> IF status.status = Absent THEN "RunPod API error" ELSE Absent]
    ELSE IF status.status = "COMPLETED"
    THEN [waiting |-> FALSE, value |-> job_result, ending |-> "completed",
          error |-> Absent]
    ELSE IF status.status \in {"FAILED", "CANCELLED"}
    THEN [waiting |-> FALSE, value |-> FailedJob, ending |-> "failed",
          error |-> "Job " \o status.status]
    ELSE [waiting |-> TRUE, value |-> FailedJob, ending |-> "waiting",
          error |-> Absent]

\* Lines 235-252 of _process_visual_frames.
VisualAfterWait(job_result) ==
    IF ~job_result.success
    THEN ErrorResult("GPU batch job failed or timed out")
    ELSE IF job_result.embeddings = 0
    THEN ErrorResult("No embeddings returned from GPU job")
    ELSE LET visual_origins == FindVisualOrigins(job_result.embeddings)
         IN  IF visual_origins.raised
             THEN ErrorResult("AttributeError: search_by_embedding")
             ELSE CombineFrameOrigins(visual_origins.value)

VisualFrames_Wait ==
    /\ job.variant = "plain" /\ visual_task.pc = "wait"
    /\ \E status \in JobStatuses, job_result \in JobResults :
        LET w == WaitForCompletion(visual_task.polls, status, job_result)
            wait == [ending |-> w.ending, error |-> w.error,
                     status |-> IF w.ending = "timeout" THEN NoStatus ELSE status]
        IN  IF w.waiting
            THEN /\ visual_task' = [visual_task EXCEPT !.polls = @ + 1,
                                        !.wait = wait]
                 /\ fs' = fs
            ELSE /\ visual_task' = [visual_task EXCEPT !.pc = "done",
                                        !.wait = wait,
                                        !.result = VisualAfterWait(w.value)]
                 /\ fs' = Finally(fs, visual_task.frame_paths)
    /\ UNCHANGED <<runs, job, audio_task, snapshots>>
    /\ UNCHANGED <<storage, video_cache, audio_cache, video_result, lineage>>
    /\ UNCHANGED <<compositeVars, combineVars, routerVars, originVars, graphVars, streamVars, callVars, schedulerVars>>

(* --- process_video after the tasks --- *)
\* Lines 100-119: the await of both tasks, the composite check, the result.
ProcessVideo_Gather ==
    /\ job.variant = "plain" /\ job.pc = "gather"
    /\ Gather(audio_task, visual_task)
    /\ LET audio_result == audio_task.result
           visual_result == visual_task.result
           is_composite == CheckIfComposite(audio_result, visual_result)
       IN  IF is_composite.raised
           THEN /\ job' = [job EXCEPT !.pc = "done",
                               !.audio_result = audio_result,
                               !.visual_result = visual_result,
                               !.ret = ErrorRet(TRUE, "AttributeError")]
                /\ fs' = Finally(fs, job.temp_files)
           ELSE /\ job' = [job EXCEPT !.pc = "store_origin",
                               !.audio_result = audio_result,
                               !.visual_result = visual_result,
                               !.result = BuildResult(job.job_id, audio_result,
                                              visual_result, is_composite.value,
                                              job.video_hash)]
                /\ fs' = fs
    /\ UNCHANGED <<runs, audio_task, visual_task, snapshots>>
    /\ UNCHANGED <<storage, video_cache, audio_cache, video_result, lineage>>
    /\ UNCHANGED <<compositeVars, combineVars, routerVars, originVars, graphVars, streamVars, callVars, schedulerVars>>

\* Lines 122-130.
ProcessVideo_StoreOrigin ==
    /\ job.variant = "plain" /\ job.pc = "store_origin"
    /\ lineage' =
        IF ResultTruthy(job.audio_result) \/ ResultTruthy(job.visual_result)
        THEN [lineage EXCEPT ![job.video_hash] =
                LineageRecord(job.video_hash, job.result.is_composite,
                    IF ResultTruthy(job.audio_result)
                    THEN OriginOrNone(job.audio_result) ELSE NoneOrigin,
                    IF ResultTruthy(job.visual_result)
                    THEN OriginOrNone(job.visual_result) ELSE NoneOrigin)]
        ELSE lineage
    /\ job' = [job EXCEPT !.pc = "cache"]
    /\ UNCHANGED <<runs, audio_task, visual_task, snapshots>>
    /\ UNCHANGED <<fs, storage, video_cache, audio_cache, video_result>>
    /\ UNCHANGED <<compositeVars, combineVars, routerVars, originVars, graphVars, streamVars, callVars, schedulerVars>>

\* Lines 133-139 and the finally block.
ProcessVideo_Cache ==
    /\ job.variant = "plain" /\ job.pc = "cache"
    /\ video_cache' = [video_cache EXCEPT ![job.video_hash] = Dumps(job.result)]
    /\ job' = [job EXCEPT !.pc = "done", !.ret = ResultRet(job.result)]
    /\ fs' = Finally(fs, job.temp_files)
    /\ UNCHANGED <<runs, audio_task, visual_task, snapshots>>
    /\ UNCHANGED <<storage, audio_cache, video_result, lineage>>
    /\ UNCHANGED <<compositeVars, combineVars, routerVars, originVars, graphVars, streamVars, callVars, schedulerVars>>

(* --- process_video_with_progress --- *)
Snap(status, percent) == [status |-> status, percent |-> percent]

\* Mutant: an error snapshot is not written.
UpdateProgressButError(snaps, status, percent) ==
    IF status = "error" THEN snaps ELSE Append(snaps, Snap(status, percent))

\* Mutant: the hashing snapshot is not written.
UpdateProgressButHashing(snaps, status, percent) ==
    IF status = "hashing" THEN snaps ELSE Append(snaps, Snap(status, percent))

\* _update_progress: the snapshot replaces the value of video_progress:<job_id>;
\* the model keeps the values written, the last one is the stored one.
UpdateProgress(snaps, status, percent) == Append(snaps, Snap(status, percent))

WithProgress_Start(input) ==
    /\ NewRun("progress", input)
    /\ snapshots' =
        IF input = "none" THEN << >>
        ELSE IF input = "url"
        THEN UpdateProgress(UpdateProgress(<< >>, "starting", 0), "downloading", 5)
        ELSE UpdateProgress(<< >>, "starting", 0)
    /\ UNCHANGED <<video_cache, audio_cache, lineage>>
    /\ UNCHANGED <<compositeVars, combineVars, routerVars, originVars, graphVars, streamVars, callVars, schedulerVars>>

WithProgress_Download ==
    /\ job.variant = "progress" /\ job.pc = "download"
    /\ \E d \in Downloads :
        IF d = "ok"
        THEN /\ job' = [job EXCEPT !.pc = "hash", !.temp_files = {VideoFile}]
             /\ fs' = fs \cup {VideoFile}
             /\ snapshots' = snapshots
        ELSE /\ job' = [job EXCEPT !.pc = "done",
                            !.ret = ErrorRet(FALSE, "Failed to download video from URL")]
             /\ fs' = Finally(IF d = "interrupted" THEN fs \cup {VideoFile} ELSE fs,
                              job.temp_files)
             /\ snapshots' = UpdateProgress(snapshots, "error", 0)
    /\ UNCHANGED <<runs, audio_task, visual_task>>
    /\ UNCHANGED <<storage, video_cache, audio_cache, video_result, lineage>>
    /\ UNCHANGED <<compositeVars, combineVars, routerVars, originVars, graphVars, streamVars, callVars, schedulerVars>>

\* Lines 484-512: metadata, hash, cache lookup, and the call of the audio branch.
WithProgress_Hash ==
    /\ job.variant = "progress" /\ job.pc = "hash"
    /\ \E frames \in BOOLEAN, audio_path \in BOOLEAN, readable \in BOOLEAN :
        LET video_hash == GetVideoHash(frames, audio_path, readable)
            hashing == UpdateProgress(UpdateProgress(snapshots, "metadata", 10),
                                      "hashing", 15)
        IN  IF video_hash.raised
            THEN /\ snapshots' = UpdateProgress(hashing, "error", 0)
                 /\ job' = [job EXCEPT !.pc = "done",
                                !.ret = ErrorRet(TRUE, video_hash.value)]
                 /\ fs' = Finally(fs, job.temp_files)
                 /\ UNCHANGED <<audio_task, video_result>>
            ELSE LET cached_result == video_cache[video_hash.value]
                 IN  IF cached_result.py # Absent
                     THEN /\ snapshots' = UpdateProgress(hashing, "complete", 100)
                          /\ video_result' = Dumps(Loads(cached_result))
                          /\ job' = [job EXCEPT !.pc = "done",
                                         !.video_hash = video_hash.value,
                                         !.ret = CacheRet(Loads(cached_result))]
                          /\ fs' = Finally(fs, job.temp_files)
                          /\ UNCHANGED audio_task
                     ELSE /\ snapshots' = UpdateProgress(hashing, "audio_processing", 20)
                          /\ job' = [job EXCEPT !.pc = "audio",
                                         !.video_hash = video_hash.value]
                          /\ audio_task' = [audio_task EXCEPT !.pc = "extract_audio"]
                          /\ fs' = fs
                          /\ UNCHANGED video_result
    /\ UNCHANGED <<runs, visual_task>>
    /\ UNCHANGED <<storage, video_cache, audio_cache, lineage>>
    /\ UNCHANGED <<compositeVars, combineVars, routerVars, originVars, graphVars, streamVars, callVars, schedulerVars>>

\* Lines 512-522: the audio branch has returned; only then are the frames
\* extracted.
WithProgress_Audio ==
    /\ job.variant = "progress" /\ job.pc = "audio"
    /\ audio_task.pc = "done"
    /\ LET audio_result == audio_task.result
           audio == IF GetError(audio_result) # ""
                    THEN UpdateProgress(snapshots, "audio_warning", 35)
                    ELSE UpdateProgress(snapshots, "audio_complete", 40)
       IN  /\ snapshots' = UpdateProgress(audio, "extracting_frames", 45)
           /\ job' = [job EXCEPT !.pc = "visual", !.audio_result = audio_result]
    /\ visual_task' = [visual_task EXCEPT !.pc = "extract_keyframes"]
    /\ UNCHANGED <<runs, audio_task>>
    /\ UNCHANGED storeVars
    /\ UNCHANGED <<compositeVars, combineVars, routerVars, originVars, graphVars, streamVars, callVars, schedulerVars>>

\* An early return of the inline visual steps: the error snapshot, the
\* error dict without a job id, and the finally block. visual_task.result
\* keeps the failure that ended the steps.
ReturnError(percent, e) ==
    /\ snapshots' = UpdateProgress(snapshots, "error", percent)
    /\ job' = [job EXCEPT !.pc = "done", !.ret = ErrorRet(FALSE, e)]
    /\ fs' = Finally(fs, job.temp_files)
    /\ visual_task' = [visual_task EXCEPT !.pc = "done", !.result = ErrorResult(e)]

WithProgress_Extract ==
    /\ job.variant = "progress" /\ visual_task.pc = "extract_keyframes"
    /\ \E n \in 0 .. KeyframeCount :
        IF n = 0
        THEN /\ ReturnError(45, "Failed to extract frames from video")
        ELSE /\ snapshots' = UpdateProgress(snapshots, "uploading_frames", 50)
             /\ visual_task' = [visual_task EXCEPT !.pc = "upload",
                                    !.frame_paths = Frames(n)]
             /\ fs' = fs \cup Frames(n)
             /\ job' = job
    /\ UNCHANGED <<runs, audio_task>>
    /\ UNCHANGED <<storage, video_cache, audio_cache, video_result, lineage>>
    /\ UNCHANGED <<compositeVars, combineVars, routerVars, originVars, graphVars, streamVars, callVars, schedulerVars>>

WithProgress_Upload ==
    /\ job.variant = "progress" /\ visual_task.pc = "upload"
    /\ \E frame_urls \in 0 .. Cardinality(visual_task.frame_paths) :
        /\ storage' = storage + frame_urls
        /\ IF frame_urls = 0
           THEN /\ ReturnError(50, "Failed to upload frames for processing")
           ELSE /\ snapshots' = UpdateProgress(snapshots, "gpu_job_submit", 55)
                /\ visual_task' = [visual_task EXCEPT !.pc = "submit",
                                       !.frame_urls = frame_urls]
                /\ UNCHANGED <<job, fs>>
    /\ UNCHANGED <<runs, audio_task>>
    /\ UNCHANGED <<video_cache, audio_cache, video_result, lineage>>
    /\ UNCHANGED <<compositeVars, combineVars, routerVars, originVars, graphVars, streamVars, callVars, schedulerVars>>

WithProgress_Submit ==
    /\ job.variant = "progress" /\ visual_task.pc = "submit"
    /\ \E success \in BOOLEAN :
        IF success
        THEN /\ snapshots' = UpdateProgress(snapshots, "gpu_job_processing", 60)
             /\ visual_task' = [visual_task EXCEPT !.pc = "wait", !.polls = 0]
             /\ UNCHANGED <<job, fs>>
        ELSE /\ ReturnError(55, "Failed to submit GPU batch job")
    /\ UNCHANGED <<runs, audio_task>>
    /\ UNCHANGED <<storage, video_cache, audio_cache, video_result, lineage>>
    /\ UNCHANGED <<compositeVars, combineVars, routerVars, originVars, graphVars, streamVars, callVars, schedulerVars>>

\* job_status.get("status", "PENDING") and the snapshot written for it.
StatusText(job_status) ==
    IF job_status.status = Absent THEN "PENDING" ELSE job_status.status
PollStatus(status_text) ==
    CASE status_text = "IN_PROGRESS" -> "gpu_job_in_progress"
      [] status_text = "IN_QUEUE" -> "gpu_job_in_queue"
      [] status_text = "CANCELLED" -> "gpu_job_cancelled"
      [] OTHER -> "gpu_job_pending"
PollPercent(status_text) ==
    IF status_text = "IN_PROGRESS" THEN 65
    ELSE IF status_text = "IN_QUEUE" THEN 62 ELSE 60

\* Lines 559-585 and the except block: one pass of the polling loop, or what
\* follows the loop. After COMPLETED the run calls runpod_service.get_job_output,
\* which RunPodService does not define (it defines get_job_result): the
\* AttributeError is caught by the except block of line 663.
WithProgress_Poll ==
    /\ job.variant = "progress" /\ visual_task.pc = "wait"
    /\ IF visual_task.polls >= MaxPolls
       THEN /\ ReturnError(65, "GPU batch job timed out")
       ELSE \E job_status \in JobStatuses :
            IF job_status.status = "COMPLETED"
            THEN /\ snapshots' =
                        UpdateProgress(
                            UpdateProgress(snapshots, "getting_gpu_results", 70),
                            "error", 0)
                 /\ job' = [job EXCEPT !.pc = "done",
                                !.ret = ErrorRet(TRUE, "AttributeError: get_job_output")]
                 /\ fs' = Finally(fs, job.temp_files)
                 /\ visual_task' = [visual_task EXCEPT !.pc = "done"]
            ELSE IF job_status.status = "FAILED"
            THEN /\ ReturnError(60, "GPU batch job failed")
            ELSE /\ snapshots' =
                        UpdateProgress(snapshots, PollStatus(StatusText(job_status)),
                                       PollPercent(StatusText(job_status)))
                 /\ visual_task' = [visual_task EXCEPT !.polls = @ + 1]
                 /\ UNCHANGED <<job, fs>>
    /\ UNCHANGED <<runs, audio_task>>
    /\ UNCHANGED <<storage, video_cache, audio_cache, video_result, lineage>>
    /\ UNCHANGED <<compositeVars, combineVars, routerVars, originVars, graphVars, streamVars, callVars, schedulerVars>>

\* The dict a finished run returned: the result dict itself (line 139 and line
\* 661), the envelope around the cached result (lines 79-83 and 504-508), or
\* the error dict.
ReturnedDict(j) ==
    CASE j.ret.kind = "result" -> j.ret.result
      [] j.ret.kind = "from_cache" ->
            [py |-> "dict", job_id |-> j.job_id, result |-> j.ret.result,
             from_cache |-> TRUE]
      [] j.ret.kind = "error" -> [py |-> "dict", error |-> j.ret.error]
      [] OTHER -> [py |-> None]

(* --- the same steps when the cache refuses a write --- *)
\* Lines 491-502 and 663-669: the cache holds the video, the complete
\* snapshot is written, then set_cache of video_result:<job_id> raises; the
\* except block writes the error snapshot and returns the error.
WithProgress_ResultWriteFails ==
    /\ job.variant = "progress" /\ job.pc = "hash"
    /\ \E frames \in BOOLEAN, audio_path \in BOOLEAN, readable \in BOOLEAN :
        LET video_hash == GetVideoHash(frames, audio_path, readable)
            hashing == UpdateProgress(UpdateProgress(snapshots, "metadata", 10),
                                      "hashing", 15)
        IN  /\ ~video_hash.raised
            /\ video_cache[video_hash.value].py # Absent
            /\ snapshots' = UpdateProgress(UpdateProgress(hashing, "complete", 100),
                                           "error", 0)
            /\ job' = [job EXCEPT !.pc = "done", !.video_hash = video_hash.value,
                           !.ret = ErrorRet(TRUE, "RedisError")]
            /\ fs' = Finally(fs, job.temp_files)
    /\ UNCHANGED <<runs, audio_task, visual_task>>
    /\ UNCHANGED <<storage, video_cache, audio_cache, video_result, lineage>>
    /\ UNCHANGED <<compositeVars, combineVars, routerVars, originVars, graphVars, streamVars, callVars, schedulerVars>>

\* Lines 122-130 and 141-150: store_origin raises on its cache write (line 75
\* of lineage_service.py); process_video returns the error.
ProcessVideo_StoreOriginFails ==
    /\ job.variant = "plain" /\ job.pc = "store_origin"
    /\ ResultTruthy(job.audio_result) \/ ResultTruthy(job.visual_result)
    /\ job' = [job EXCEPT !.pc = "done", !.ret = ErrorRet(TRUE, "RedisError")]
    /\ fs' = Finally(fs, job.temp_files)
    /\ UNCHANGED <<runs, audio_task, visual_task, snapshots>>
    /\ UNCHANGED <<storage, video_cache, audio_cache, video_result, lineage>>
    /\ UNCHANGED <<compositeVars, combineVars, routerVars, originVars, graphVars, streamVars, callVars, schedulerVars>>

\* Lines 133-150: the write of video:<hash> raises; process_video returns
\* the error.
ProcessVideo_CacheFails ==
    /\ job.variant = "plain" /\ job.pc = "cache"
    /\ job' = [job EXCEPT !.pc = "done", !.ret = ErrorRet(TRUE, "RedisError")]
    /\ fs' = Finally(fs, job.temp_files)
    /\ UNCHANGED <<runs, audio_task, visual_task, snapshots>>
    /\ UNCHANGED <<storage, video_cache, audio_cache, video_result, lineage>>
    /\ UNCHANGED <<compositeVars, combineVars, routerVars, originVars, graphVars, streamVars, callVars, schedulerVars>>


(***************************************************************************)
(* LineageService: store_origin, get_origin and the graph store            *)
(***************************************************************************)
MaxArtifacts == 4
MaxOriginIds == 2
MaxUuids == 1
MaxBatchRuns == 2
\* The artifact ids, the ids that hits carry, and the ids uuid4() yields.
ArtifactIds == 1 .. MaxArtifacts
OriginIds == 1 .. MaxOriginIds
Uuids == (MaxOriginIds + 1) .. (MaxOriginIds + MaxUuids)
\* A property that was never set (null in the graph store).
Unset == -1

\* An origin dict as store_origin receives it, reduced to the keys the
\* service reads: found, hit.id (0: the hit has no id) and hit.timestamp. The
\* same origin carries the same timestamp in every hit; None and a dict with
\* found False are both NotFound (neither is written to the graph).
HitTimestamp(id) == MaxOriginIds + 1 - id
NotFound == [found |-> FALSE, id |-> 0, timestamp |-> 0]
FoundOrigin(id) == [found |-> TRUE, id |-> id, timestamp |-> HitTimestamp(id)]
OriginDicts == {NotFound} \cup {FoundOrigin(id) : id \in 0 .. MaxOriginIds}

\* The arguments of one store_origin call.
Assignment(is_composite, origin_data, audio_origin, visual_origin) ==
    [is_composite |-> is_composite, origin_data |-> origin_data,
     audio_origin |-> audio_origin, visual_origin |-> visual_origin]
Assignments ==
    {Assignment(FALSE, o, NotFound, NotFound) : o \in OriginDicts} \cup
    {Assignment(TRUE, NotFound, a, v) : a \in OriginDicts, v \in OriginDicts}
NoAssignment == [py |-> None]

\* The lineage record of lines 61-70 (timestamp and record_id left out).
StoredRecord(artifact_id, assignment) ==
    [py |-> "dict", artifact_id |-> artifact_id,
     is_composite |-> assignment.is_composite,
     origin_data |-> assignment.origin_data,
     audio_origin |-> assignment.audio_origin,
     visual_origin |-> assignment.visual_origin]

\* The graph store: Artifact nodes, Origin nodes, the relationships from an
\* artifact to an origin and the spread relationships between artifacts.
NoArtifact == [exists |-> FALSE, is_composite |-> FALSE]
NoOrigin ==
    [exists |-> FALSE, timestamp |-> 0, spread_count |-> Unset,
     engagement_score |-> Unset]
EmptyGraph ==
    [artifact |-> [a \in ArtifactIds |-> NoArtifact],
     origin |-> [o \in OriginIds \cup Uuids |-> NoOrigin],
     from |-> {}, spread |-> {}, uuids |-> 0]
FromEdge(type, a, o) == [type |-> type, a |-> a, o |-> o]
OriginsOf(g, type, a) == {e.o : e \in {f \in g.from : f.type = type /\ f.a = a}}

\* MERGE (o:Origin {id: ...}) SET ... MERGE (a)-[r:<type>]->(o): the node and
\* the relationship are created unless they exist; no relationship of the
\* artifact is removed. A hit without an id gets str(uuid4()).
MergeOrigin(g, type, a, origin) ==
    LET id == IF origin.id = 0 THEN MaxOriginIds + g.uuids + 1 ELSE origin.id
    IN  [g EXCEPT !.origin[id] = [@ EXCEPT !.exists = TRUE,
                                           !.timestamp = origin.timestamp],
                  !.from = @ \cup {FromEdge(type, a, id)},
                  !.uuids = IF origin.id = 0 THEN @ + 1 ELSE @]

\* _store_composite_origins.
StoreCompositeOrigins(g, a, audio_origin, visual_origin) ==
    LET g1 == IF audio_origin.found
              THEN MergeOrigin(g, "AUDIO_FROM", a, audio_origin) ELSE g
    IN  IF visual_origin.found
        THEN MergeOrigin(g1, "VISUAL_FROM", a, visual_origin) ELSE g1

\* _store_in_graph.
StoreInGraph(g, a, assignment) ==
    LET g1 == [g EXCEPT !.artifact[a] =
                    [exists |-> TRUE, is_composite |-> assignment.is_composite]]
    IN  IF assignment.is_composite
        THEN StoreCompositeOrigins(g1, a, assignment.audio_origin,
                                   assignment.visual_origin)
        ELSE IF assignment.origin_data.found
             THEN MergeOrigin(g1, "ORIGINATED_FROM", a, assignment.origin_data)
             ELSE g1

\* The ids uuid4() has to yield for the assignment.
UuidsNeeded(assignment) ==
    IF assignment.is_composite
    THEN (IF assignment.audio_origin = FoundOrigin(0) THEN 1 ELSE 0)
         + (IF assignment.visual_origin = FoundOrigin(0) THEN 1 ELSE 0)
    ELSE IF assignment.origin_data = FoundOrigin(0) THEN 1 ELSE 0

NoLineageRet == [kind |-> "none"]

\* store_origin: the record is written to the cache, then to the graph when
\* Neo4j is enabled; an exception of the graph store is caught (lines 80-87).
\* The batch job is not running while origins are stored.
Lineage_StoreOrigin(a, assignment, graph_ok) ==
    /\ batch.pc \in {"idle", "done"}
    /\ graph.uuids + UuidsNeeded(assignment) <= MaxUuids
    /\ stored' = [last |-> [stored.last EXCEPT ![a] = assignment],
                  count |-> stored.count + 1]
    /\ lineage' = [lineage EXCEPT ![a] = Dumps(StoredRecord(a, assignment))]
    /\ graph' = IF neo4j_enabled /\ graph_ok
                THEN StoreInGraph(graph, a, assignment) ELSE graph
    /\ lineage_ret' = [kind |-> "store_origin", success |-> TRUE,
                       graph_stored |-> neo4j_enabled /\ graph_ok]
    /\ UNCHANGED <<neo4j_enabled, batch>>
    /\ UNCHANGED <<runVars, fs, storage, video_cache, audio_cache, video_result>>
    /\ UNCHANGED <<compositeVars, combineVars, routerVars, originVars, streamVars, callVars, schedulerVars>>

\* The cache entry lineage:<id> expires (90 days, or 1 day when get_origin
\* wrote it).
Lineage_Expire(a) ==
    /\ lineage[a] # NoEntry
    /\ lineage' = [lineage EXCEPT ![a] = NoEntry]
    /\ UNCHANGED graphVars
    /\ UNCHANGED <<runVars, fs, storage, video_cache, audio_cache, video_result>>
    /\ UNCHANGED <<compositeVars, combineVars, routerVars, originVars, streamVars, callVars, schedulerVars>>

\* _build_origin_from_record: None without a node or a relationship.
BuildOriginFromRecord(g, o) ==
    IF o = 0 THEN NotFound
    ELSE [found |-> TRUE, id |-> o, timestamp |-> g.origin[o].timestamp]

\* _get_from_graph: the records result.single() can return. A query that
\* matches several rows returns one of them, in an order the store chooses.
NoneRecord == [py |-> None]
OptionalMatch(origins) == IF origins = {} THEN {0} ELSE origins
GetFromGraph(g, a) ==
    IF ~g.artifact[a].exists THEN {NoneRecord}
    ELSE IF g.artifact[a].is_composite
    THEN {[py |-> "dict", artifact_id |-> a, is_composite |-> TRUE,
           audio_origin |-> BuildOriginFromRecord(g, ao),
           visual_origin |-> BuildOriginFromRecord(g, vo)] :
             ao \in OptionalMatch(OriginsOf(g, "AUDIO_FROM", a)),
             vo \in OptionalMatch(OriginsOf(g, "VISUAL_FROM", a))}
    ELSE IF OriginsOf(g, "ORIGINATED_FROM", a) = {} THEN {NoneRecord}
    ELSE {[py |-> "dict", artifact_id |-> a, is_composite |-> FALSE,
           origin_data |-> BuildOriginFromRecord(g, o)] :
             o \in OriginsOf(g, "ORIGINATED_FROM", a)}

\* get_origin: the cached record; without it the record built from the graph
\* (which is then cached for a day), or None.
Lineage_GetOrigin(a) ==
    /\ batch.pc \in {"idle", "done"}
    /\ IF lineage[a] # NoEntry
       THEN /\ lineage_ret' = [kind |-> "get_origin", artifact_id |-> a,
                               value |-> Loads(lineage[a])]
            /\ lineage' = lineage
       ELSE \E graph_ok \in BOOLEAN :
            \E graph_data \in IF neo4j_enabled /\ graph_ok
                              THEN GetFromGraph(graph, a) ELSE {NoneRecord} :
                /\ lineage_ret' = [kind |-> "get_origin", artifact_id |-> a,
                                   value |-> graph_data]
                /\ lineage' = IF graph_data # NoneRecord
                              THEN [lineage EXCEPT ![a] = Dumps(graph_data)]
                              ELSE lineage
    /\ UNCHANGED <<neo4j_enabled, graph, batch, stored>>
    /\ UNCHANGED <<runVars, fs, storage, video_cache, audio_cache, video_result>>
    /\ UNCHANGED <<compositeVars, combineVars, routerVars, originVars, streamVars, callVars, schedulerVars>>

(* --- build_multi_hop_graph --- *)
\* The stats dict of lines 386-391; multi_hop_relationships and
\* origins_updated are set by their steps, error by the except block, reason
\* only by the return of line 384.
NoStats ==
    [status |-> "none", relationships_created |-> 0, artifacts_processed |-> 0,
     multi_hop_relationships |-> Unset, origins_updated |-> Unset,
     error |-> Absent, reason |-> Absent]
\* spread_before is the number of spread relationships when the run started.
IdleBatch == [pc |-> "idle", runs |-> 0, stats |-> NoStats, spread_before |-> 0]

\* A spread relationship; created_at is the number of the run that created it.
SpreadEdge(type, a1, a2, hop_count, origin_id, created_at) ==
    [type |-> type, a1 |-> a1, a2 |-> a2, hop_count |-> hop_count,
     origin_id |-> origin_id, created_at |-> created_at]
SpreadEdges(g, type) == {e \in g.spread : e.type = type}
\* Mutant: no pair counts as joined.
NeverJoined(g, type, a1, a2) == FALSE
\* EXISTS((a1)-[:<type>]-(a2)), in either direction.
Joined(g, type, a1, a2) ==
    \E e \in SpreadEdges(g, type) :
        \/ e.a1 = a1 /\ e.a2 = a2
        \/ e.a1 = a2 /\ e.a2 = a1
\* Mutant: no relationship from a1 to a2 is ever seen.
NeverDirect(g, type, a1, a2) == FALSE
\* EXISTS((a1)-[:<type>]->(a2)).
Direct(g, type, a1, a2) ==
    \E e \in SpreadEdges(g, type) : e.a1 = a1 /\ e.a2 = a2

\* The relationships one of the queries of lines 397-444 creates: one for
\* every row (a1, a2, o) the MATCH finds in the graph as it is when the query
\* starts.
NewSpreadEdges(g, from_type, spread_type, now) ==
    LET edges == {f \in g.from : f.type = from_type}
        rows == {p \in edges \X edges :
                    /\ p[1].o = p[2].o
                    /\ p[1].a # p[2].a
                    /\ ~Joined(g, spread_type, p[1].a, p[2].a)}
    IN  {SpreadEdge(spread_type, p[1].a, p[2].a, 1, p[1].o, now) : p \in rows}

\* Mutant: the largest sum instead of the smallest.
MaxHops(sums) == CHOOSE m \in sums : \A n \in sums : n <= m
\* min(r1.hop_count + r2.hop_count).
MinHops(sums) == CHOOSE m \in sums : \A n \in sums : m <= n

\* The sums r1.hop_count + r2.hop_count over the paths a1 -> a2 -> a3.
TwoHopSums(g, a1, a3) ==
    LET edges == SpreadEdges(g, "SPREAD_TO")
    IN  {p[1].hop_count + p[2].hop_count :
            p \in {q \in edges \X edges :
                      /\ q[1] # q[2]
                      /\ q[1].a1 = a1 /\ q[1].a2 = q[2].a1 /\ q[2].a2 = a3}}

\* The relationships the query of lines 456-466 creates.
TransitiveEdges(g, now) ==
    LET pairs == {p \in ArtifactIds \X ArtifactIds :
                     /\ p[1] # p[2]
                     /\ TwoHopSums(g, p[1], p[2]) # {}
                     /\ ~Direct(g, "SPREAD_TO", p[1], p[2])}
    IN  {SpreadEdge("SPREAD_TO", p[1], p[2],
                    MinHops(TwoHopSums(g, p[1], p[2])), 0, now) : p \in pairs}

\* The CASE of lines 478-484.
EngagementScore(spread_count) ==
    IF spread_count > 100 THEN 5
    ELSE IF spread_count > 50 THEN 4
    ELSE IF spread_count > 20 THEN 3
    ELSE IF spread_count > 5 THEN 2
    ELSE 1

\* The origins the MATCH of line 475 finds, and the properties it sets.
PointedOrigins(g) == {f.o : f \in {e \in g.from : e.type = "ORIGINATED_FROM"}}
SpreadCount(g, o) ==
    Cardinality({e \in g.from : e.type = "ORIGINATED_FROM" /\ e.o = o})
SetEngagement(g) ==
    [g EXCEPT !.origin =
        [o \in DOMAIN g.origin |->
            IF o \in PointedOrigins(g)
            THEN [g.origin[o] EXCEPT !.spread_count = SpreadCount(g, o),
                                     !.engagement_score =
                                         EngagementScore(SpreadCount(g, o))]
            ELSE g.origin[o]]]

\* Mutant: a failing step takes the counters with it.
BatchFailedReset(b, e) ==
    [b EXCEPT !.pc = "done",
              !.stats = [NoStats EXCEPT !.status = "error", !.error = e]]
\* The except block of lines 497-502.
BatchFailed(b, e) ==
    [b EXCEPT !.pc = "done", !.stats.status = "error", !.stats.error = e]

BuildMultiHop_Start ==
    /\ batch.pc \in {"idle", "done"}
    /\ batch.runs < MaxBatchRuns
    /\ batch' =
        IF ~neo4j_enabled
        THEN [pc |-> "done", runs |-> batch.runs + 1,
              stats |-> [NoStats EXCEPT !.status = "error",
                                        !.reason = "Neo4j not enabled"],
              spread_before |-> Cardinality(graph.spread)]
        ELSE [pc |-> "spread", runs |-> batch.runs + 1,
              stats |-> [NoStats EXCEPT !.status = "running"],
              spread_before |-> Cardinality(graph.spread)]
    /\ lineage_ret' = NoLineageRet
    /\ UNCHANGED <<neo4j_enabled, graph, stored>>
    /\ UNCHANGED videoVars
    /\ UNCHANGED <<compositeVars, combineVars, routerVars, originVars, streamVars, callVars, schedulerVars>>

\* One of the three queries of lines 397-444, or its exception.
SpreadStep(pc, from_type, spread_type, next) ==
    /\ batch.pc = pc
    /\ \E ok \in BOOLEAN :
        IF ok
        THEN LET new == NewSpreadEdges(graph, from_type, spread_type, batch.runs)
             IN  /\ graph' = [graph EXCEPT !.spread = @ \cup new]
                 /\ batch' = [batch EXCEPT !.pc = next,
                                  !.stats.relationships_created =
                                      @ + Cardinality(new)]
        ELSE /\ graph' = graph
             /\ batch' = BatchFailed(batch, "ServiceUnavailable")
    /\ UNCHANGED <<neo4j_enabled, stored, lineage_ret>>
    /\ UNCHANGED videoVars
    /\ UNCHANGED <<compositeVars, combineVars, routerVars, originVars, streamVars, callVars, schedulerVars>>

BuildMultiHop_Spread ==
    SpreadStep("spread", "ORIGINATED_FROM", "SPREAD_TO", "audio_spread")
BuildMultiHop_AudioSpread ==
    SpreadStep("audio_spread", "AUDIO_FROM", "AUDIO_SPREAD_TO", "visual_spread")
BuildMultiHop_VisualSpread ==
    SpreadStep("visual_spread", "VISUAL_FROM", "VISUAL_SPREAD_TO", "count")

\* Lines 446-454.
BuildMultiHop_Count ==
    /\ batch.pc = "count"
    /\ \E ok \in BOOLEAN :
        batch' =
            IF ok
            THEN [batch EXCEPT !.pc = "transitive",
                      !.stats.artifacts_processed =
                          Cardinality({a \in ArtifactIds : graph.artifact[a].exists})]
            ELSE BatchFailed(batch, "ServiceUnavailable")
    /\ UNCHANGED <<neo4j_enabled, graph, stored, lineage_ret>>
    /\ UNCHANGED videoVars
    /\ UNCHANGED <<compositeVars, combineVars, routerVars, originVars, streamVars, callVars, schedulerVars>>

\* Lines 456-471.
BuildMultiHop_Transitive ==
    /\ batch.pc = "transitive"
    /\ \E ok \in BOOLEAN :
        IF ok
        THEN LET new == TransitiveEdges(graph, batch.runs)
             IN  /\ graph' = [graph EXCEPT !.spread = @ \cup new]
                 /\ batch' = [batch EXCEPT !.pc = "engagement",
                                  !.stats.multi_hop_relationships = Cardinality(new),
                                  !.stats.relationships_created =
                                      @ + Cardinality(new)]
        ELSE /\ graph' = graph
             /\ batch' = BatchFailed(batch, "ServiceUnavailable")
    /\ UNCHANGED <<neo4j_enabled, stored, lineage_ret>>
    /\ UNCHANGED videoVars
    /\ UNCHANGED <<compositeVars, combineVars, routerVars, originVars, streamVars, callVars, schedulerVars>>

\* Lines 473-495.
BuildMultiHop_Engagement ==
    /\ batch.pc = "engagement"
    /\ \E ok \in BOOLEAN :
        IF ok
        THEN /\ graph' = SetEngagement(graph)
             /\ batch' = [batch EXCEPT !.pc = "done",
                              !.stats.origins_updated =
                                  Cardinality(PointedOrigins(graph)),
                              !.stats.status = "success"]
        ELSE /\ graph' = graph
             /\ batch' = BatchFailed(batch, "ServiceUnavailable")
    /\ UNCHANGED <<neo4j_enabled, stored, lineage_ret>>
    /\ UNCHANGED videoVars
    /\ UNCHANGED <<compositeVars, combineVars, routerVars, originVars, streamVars, callVars, schedulerVars>>

(* --- get_spread_view --- *)
MaxDepth == 2
StandardLimit == 100
ComponentLimit == 50

Successors(g, type, nodes) ==
    {e.a2 : e \in {f \in SpreadEdges(g, type) : f.a1 \in nodes}}
\* The artifacts at the end of a path of k relationships from a.
RECURSIVE ReachedAt(_, _, _, _)
ReachedAt(g, type, a, k) ==
    IF k = 1 THEN Successors(g, type, {a})
    ELSE Successors(g, type, ReachedAt(g, type, a, k - 1))
\* min(length(path)) over the paths of 1 .. max_depth relationships.
PathLengths(g, type, a, related, max_depth) ==
    {k \in 1 .. max_depth : related \in ReachedAt(g, type, a, k)}

\* The rows of one of the queries of lines 521-535, 570-586 and 606-622: one
\* per reachable artifact and origin of it.
SpreadRows(g, spread_type, from_type, component, a, max_depth) ==
    LET related == {b \in ArtifactIds :
                       PathLengths(g, spread_type, a, b, max_depth) # {}}
        joined == {f \in g.from : f.type = from_type /\ f.a \in related}
    IN  {[artifact_id |-> f.a,
          hop_count |-> MinHops(PathLengths(g, spread_type, a, f.a, max_depth)),
          origin_id |-> f.o,
          timestamp |-> g.origin[f.o].timestamp,
          spread_count |-> g.origin[f.o].spread_count,
          engagement_score |-> g.origin[f.o].engagement_score,
          component |-> component] : f \in joined}

\* ORDER BY min_path_length, ro.timestamp; rows with equal keys come in an
\* order the store chooses (here: by ids, upwards or downwards).
Before(r, s, up) ==
    \/ r.hop_count < s.hop_count
    \/ /\ r.hop_count = s.hop_count
       /\ \/ r.timestamp < s.timestamp
          \/ /\ r.timestamp = s.timestamp
             /\ LET less == \/ r.artifact_id < s.artifact_id
                            \/ /\ r.artifact_id = s.artifact_id
                               /\ r.origin_id < s.origin_id
                IN  IF up THEN less ELSE ~less
RECURSIVE OrderBy(_, _)
OrderBy(rows, up) ==
    IF rows = {} THEN << >>
    ELSE LET first == CHOOSE r \in rows :
                          \A s \in rows \ {r} : Before(r, s, up)
         IN  <<first>> \o OrderBy(rows \ {first}, up)
\* result.fetch(n).
Fetch(records, n) ==
    IF Len(records) <= n THEN records ELSE SubSeq(records, 1, n)

\* get_spread_view, without the origin metadata of lines 639-688.
GetSpreadView(a, max_depth) ==
    /\ batch.pc \in {"idle", "done"}
    /\ \E ok \in BOOLEAN, up \in BOOLEAN :
        lineage_ret' =
            IF ~neo4j_enabled
            THEN [kind |-> "spread_view", status |-> "error", artifact_id |-> a,
                  reason |-> "Neo4j not enabled"]
            ELSE IF ~ok
            THEN [kind |-> "spread_view", status |-> "error", artifact_id |-> a,
                  error |-> "ServiceUnavailable"]
            ELSE LET is_composite == graph.artifact[a].exists
                                     /\ graph.artifact[a].is_composite
                     records == Fetch(OrderBy(SpreadRows(graph, "SPREAD_TO",
                                    "ORIGINATED_FROM", Absent, a, max_depth), up),
                                    StandardLimit)
                     audio_records ==
                         Fetch(OrderBy(SpreadRows(graph, "AUDIO_SPREAD_TO",
                             "AUDIO_FROM", "audio", a, max_depth), up),
                             ComponentLimit)
                     visual_records ==
                         Fetch(OrderBy(SpreadRows(graph, "VISUAL_SPREAD_TO",
                             "VISUAL_FROM", "visual", a, max_depth), up),
                             ComponentLimit)
                     spread_items ==
                         IF is_composite
                         THEN records \o audio_records \o visual_records
                         ELSE records
                 IN  [kind |-> "spread_view", status |-> "success",
                      artifact_id |-> a, max_depth |-> max_depth,
                      is_composite |-> is_composite,
                      spread_items |-> spread_items,
                      total_items |-> Len(spread_items)]
    /\ UNCHANGED <<neo4j_enabled, graph, batch, stored>>
    /\ UNCHANGED videoVars
    /\ UNCHANGED <<compositeVars, combineVars, routerVars, originVars, streamVars, callVars, schedulerVars>>

(***************************************************************************)
(* video_progress_sse: the progress stream of a job                        *)
(***************************************************************************)
\* Largest number of events after which the stream is still followed.
MaxEvents == 3

Event(kind, status, percent) == [kind |-> kind, status |-> status, percent |-> percent]
ClosedEvent == Event("closed", "closed", 0)
IdleStream == [pc |-> "idle", events |-> << >>]

\* job_status.get("error"): _update_progress writes the keys job_id, status,
\* message, percent and timestamp, so the key is absent and the value None.
SnapGetError(job_status) == None

\* Line 135.
IsFinished(job_status) ==
    job_status.status = "complete" \/ Truthy(SnapGetError(job_status))

\* Line 120: the generator starts.
Stream_Connect ==
    /\ stream.pc = "idle"
    /\ stream' = [pc |-> "polling",
                  events |-> <<Event("connected", "connected", 0)>>]
    /\ UNCHANGED <<compositeVars, combineVars, routerVars, originVars, videoVars,
                   graphVars, callVars, schedulerVars>>

\* Lines 123-151: one pass of the loop, with the closing event when the pass
\* breaks out of it or get_cache raises.
Stream_Poll ==
    /\ stream.pc = "polling"
    /\ Len(stream.events) < MaxEvents
    /\ \E ok \in BOOLEAN :
        stream' =
            IF ~ok
            THEN [pc |-> "closed",
                  events |-> stream.events \o
                             <<Event("exception", "error", 0), ClosedEvent>>]
            ELSE IF snapshots = << >>
            THEN IF video_result # NoEntry
                 THEN [pc |-> "closed",
                       events |-> stream.events \o
                                  <<Event("result", "complete", 0), ClosedEvent>>]
                 ELSE [stream EXCEPT !.events =
                          Append(@, Event("pending", "pending", 0))]
            ELSE LET job_status == snapshots[Len(snapshots)]
                     update == Event("progress", job_status.status,
                                     job_status.percent)
                 IN  IF IsFinished(job_status)
                     THEN [pc |-> "closed",
                           events |-> stream.events \o <<update, ClosedEvent>>]
                     ELSE [stream EXCEPT !.events = Append(@, update)]
    /\ UNCHANGED <<compositeVars, combineVars, routerVars, originVars, videoVars,
                   graphVars, callVars, schedulerVars>>

(***************************************************************************)
(* LineageService.store_origin called concurrently                         *)
(* Several callers store an origin at the same time. A call gives up the   *)
(* event loop at the await of the cache write (line 75) and at the await   *)
(* of the graph write (line 80), so the steps of the callers interleave;   *)
(* the statements of _store_in_graph are taken as one step. The service    *)
(* holds no lock.                                                          *)
(***************************************************************************)
MaxCallers == 2
Callers == 1 .. MaxCallers

IdleCall == [pc |-> "idle"]
\* order lists the writes in the order they took place.
NoCalls == [of |-> [p \in Callers |-> IdleCall], order |-> << >>]

\* The origins of these calls carry an id.
CallAssignments == {x \in Assignments : UuidsNeeded(x) = 0}

\* store_origin up to the await of line 75: the record is in the cache.
StoreOrigin_Cache(p, a, assignment) ==
    /\ calls.of[p].pc = "idle"
    /\ lineage' = [lineage EXCEPT ![a] = Dumps(StoredRecord(a, assignment))]
    /\ stored' = [last |-> [stored.last EXCEPT ![a] = assignment],
                  count |-> stored.count + 1]
    /\ calls' = [of |-> [calls.of EXCEPT ![p] =
                            [pc |-> "cached", artifact_id |-> a,
                             assignment |-> assignment]],
                 order |-> Append(calls.order, <<p, "cache">>)]
    /\ UNCHANGED <<neo4j_enabled, graph, batch, lineage_ret>>
    /\ UNCHANGED <<runVars, fs, storage, video_cache, audio_cache, video_result>>
    /\ UNCHANGED <<compositeVars, combineVars, routerVars, originVars, streamVars,
                   schedulerVars>>

\* store_origin from line 78 to its return: the record is written to the
\* graph when Neo4j is enabled; an exception of the graph store is caught.
StoreOrigin_Graph(p, graph_ok) ==
    /\ calls.of[p].pc = "cached"
    /\ graph' = IF neo4j_enabled /\ graph_ok
                THEN StoreInGraph(graph, calls.of[p].artifact_id,
                                  calls.of[p].assignment)
                ELSE graph
    /\ lineage_ret' = [kind |-> "store_origin", success |-> TRUE,
                       graph_stored |-> neo4j_enabled /\ graph_ok]
    /\ calls' = [of |-> [calls.of EXCEPT ![p] =
                            [pc |-> "done",
                             artifact_id |-> calls.of[p].artifact_id,
                             assignment |-> calls.of[p].assignment,
                             graph_stored |-> neo4j_enabled /\ graph_ok]],
                 order |-> Append(calls.order, <<p, "graph">>)]
    /\ UNCHANGED <<neo4j_enabled, batch, stored>>
    /\ UNCHANGED <<runVars, storeVars>>
    /\ UNCHANGED <<compositeVars, combineVars, routerVars, originVars, streamVars,
                   schedulerVars>>

(***************************************************************************)
(* SchedulerService: start, stop and the loop of _run_scheduler            *)
(* The attributes are class attributes, so there is one scheduler. A loop  *)
(* is a task made by asyncio.create_task; it runs from one await to the    *)
(* next without interruption. clock is what time.time() reads, in seconds. *)
(* Both batch methods catch every exception, so the except block of the    *)
(* loop is never entered.                                                  *)
(***************************************************************************)
MaxLoops == 2
MaxTicks == 3
MaxSchedulerCalls == 4
TinEyeInterval == 3600
LineageInterval == 86400
SleepSeconds == 60
\* The process starts more than a day after the epoch.
StartTime == LineageInterval
\* The time that passes between two steps.
Elapsed == {SleepSeconds, TinEyeInterval, LineageInterval}

IdleScheduler ==
    [running |-> FALSE, tineye_last_run |-> 0, lineage_graph_last_run |-> 0,
     lineage_service |-> FALSE, last_update |-> "none",
     clock |-> StartTime, ticks |-> 0, calls |-> 0, loops |-> << >>]

\* A task of _run_scheduler: its position, its local current_time, the time
\* its sleep ends, and whether it began a batch while _running was False.
NewLoop == [pc |-> "created", current_time |-> 0, until |-> 0,
            began_stopped |-> FALSE]
Loops == 1 .. Len(scheduler.loops)
ActiveLoops == {l \in Loops : scheduler.loops[l].pc # "exited"}
InBatch(l) == scheduler.loops[l].pc \in {"tineye", "lineage"}

\* Line 56: the loop sleeps for a minute.
Sleep(s, l) ==
    [s EXCEPT !.loops[l].pc = "sleep", !.loops[l].until = s.clock + SleepSeconds]
\* Lines 51-52: the lineage graph update begins when it is due.
LineageCheck(s, l) ==
    IF s.loops[l].current_time - s.lineage_graph_last_run >= LineageInterval
    THEN [s EXCEPT !.loops[l].pc = "lineage",
                   !.loops[l].began_stopped = @ \/ ~s.running]
    ELSE Sleep(s, l)
\* Lines 40-46: the test of the while statement, the clock is read and the
\* TinEye batch begins when it is due.
LoopTop(s, l) ==
    IF ~s.running THEN [s EXCEPT !.loops[l].pc = "exited"]
    ELSE LET s1 == [s EXCEPT !.loops[l].current_time = s.clock]
         IN  IF s1.loops[l].current_time - s1.tineye_last_run >= TinEyeInterval
             THEN [s1 EXCEPT !.loops[l].pc = "tineye"]
             ELSE LineageCheck(s1, l)

SchedulerStep(s) ==
    /\ scheduler' = s
    /\ UNCHANGED <<compositeVars, combineVars, routerVars, originVars, videoVars,
                   graphVars, streamVars, callVars>>

\* start (lines 20-29).
Scheduler_Start ==
    /\ scheduler.calls < MaxSchedulerCalls
    /\ IF scheduler.running
       THEN SchedulerStep([scheduler EXCEPT !.calls = @ + 1])
       ELSE /\ Len(scheduler.loops) < MaxLoops
            /\ SchedulerStep([scheduler EXCEPT !.calls = @ + 1,
                                               !.running = TRUE,
                                               !.lineage_service = TRUE,
                                               !.loops = Append(@, NewLoop)])

\* stop (lines 32-35).
Scheduler_Stop ==
    /\ scheduler.calls < MaxSchedulerCalls
    /\ SchedulerStep([scheduler EXCEPT !.calls = @ + 1, !.running = FALSE])

\* The task runs for the first time.
Loop_Run(l) ==
    /\ scheduler.loops[l].pc = "created"
    /\ SchedulerStep(LoopTop(scheduler, l))

\* _run_tineye_batch returned (lines 46-52).
Loop_TinEyeDone(l) ==
    /\ scheduler.loops[l].pc = "tineye"
    /\ SchedulerStep(LineageCheck(
           [scheduler EXCEPT !.tineye_last_run = scheduler.loops[l].current_time],
           l))

\* _run_lineage_graph_update returned (lines 52-56, 74-88): skipped without
\* Neo4j, else the result of build_multi_hop_graph or the error it raised.
Loop_LineageDone(l) ==
    /\ scheduler.loops[l].pc = "lineage"
    /\ \E status \in IF ~scheduler.lineage_service \/ ~neo4j_enabled
                     THEN {"skipped"} ELSE {"success", "error"} :
        SchedulerStep(Sleep(
            [scheduler EXCEPT
                !.lineage_graph_last_run = scheduler.loops[l].current_time,
                !.last_update = status],
            l))

\* asyncio.sleep(60) returned (line 56, then line 40).
Loop_Wake(l) ==
    /\ scheduler.loops[l].pc = "sleep"
    /\ scheduler.clock >= scheduler.loops[l].until
    /\ SchedulerStep(LoopTop(scheduler, l))

\* Time passes.
Scheduler_Tick ==
    /\ scheduler.ticks < MaxTicks
    /\ \E d \in Elapsed :
        SchedulerStep([scheduler EXCEPT !.ticks = @ + 1, !.clock = @ + d])

(***************************************************************************)
(* Specifications                                                          *)
(***************************************************************************)
CompositeIdle ==
    /\ t_audio = PlainResult("None")
    /\ t_visual = PlainResult("None")
    /\ t_ret = NotCalled

CombineIdle ==
    /\ frame_origins = << >>
    /\ combined = [called |-> FALSE]

RouterIdle ==
    /\ index = [q \in Queries |-> << >>]
    /\ redis = [k \in SearchKeys |-> Absent]
    /\ vector_calls = [q \in Queries |-> 0]
    /\ perplexity_calls = [q \in Queries |-> 0]
    /\ coroutines = 0
    /\ search_log = << >>

OriginIdle ==
    /\ all_results = << >>
    /\ derived = [called |-> FALSE]

VideoIdle ==
    /\ runs = 0
    /\ job = IdleJob
    /\ audio_task = IdleAudio
    /\ visual_task = IdleVisual
    /\ snapshots = << >>
    /\ fs = {}
    /\ storage = 0
    /\ video_cache = [h \in HashKinds |-> NoEntry]
    /\ audio_cache = NoEntry
    /\ video_result = NoEntry
    /\ lineage = [h \in HashKinds |-> NoEntry]

GraphIdle ==
    /\ neo4j_enabled = FALSE
    /\ graph = EmptyGraph
    /\ batch = IdleBatch
    /\ stored = [last |-> [a \in ArtifactIds |-> NoAssignment], count |-> 0]
    /\ lineage_ret = NoLineageRet

StreamIdle == stream = IdleStream

CallsIdle == calls = NoCalls

SchedulerIdle == scheduler = IdleScheduler

\* --- next idle ---

\* Any pair of branch results, then the call of _check_if_composite.
InitComposite ==
    /\ t_audio \in BranchResults
    /\ t_visual \in BranchResults
    /\ t_ret = NotCalled
    /\ CombineIdle /\ RouterIdle /\ OriginIdle /\ VideoIdle /\ GraphIdle /\ StreamIdle /\ CallsIdle /\ SchedulerIdle

NextComposite == CallCheckIfComposite

SpecComposite == InitComposite /\ [][NextComposite]_vars

InitCombine ==
    /\ CombineIdle
    /\ CompositeIdle /\ RouterIdle /\ OriginIdle /\ VideoIdle /\ GraphIdle /\ StreamIdle /\ CallsIdle /\ SchedulerIdle

NextCombine == AddFrame \/ AddHit \/ CallCombineFrameOrigins

SpecCombine == InitCombine /\ [][NextCombine]_vars

\* The router: any local index, an empty cache, then search calls.
InitRouter ==
    /\ index \in [Queries -> IndexRows]
    /\ redis = [k \in SearchKeys |-> Absent]
    /\ vector_calls = [q \in Queries |-> 0]
    /\ perplexity_calls = [q \in Queries |-> 0]
    /\ coroutines = 0
    /\ search_log = << >>
    /\ CompositeIdle /\ CombineIdle /\ OriginIdle /\ VideoIdle /\ GraphIdle /\ StreamIdle /\ CallsIdle /\ SchedulerIdle

NextRouter == Search

SpecRouter == InitRouter /\ [][NextRouter]_vars

InitOrigins ==
    /\ OriginIdle
    /\ CompositeIdle /\ CombineIdle /\ RouterIdle /\ VideoIdle /\ GraphIdle /\ StreamIdle /\ CallsIdle /\ SchedulerIdle

NextOrigins == AddResult \/ CallDeriveOrigins

SpecOrigins == InitOrigins /\ [][NextOrigins]_vars

\* The pipeline: nothing cached, then runs of either variant, one after the
\* other; within a run of process_video the two tasks interleave.
InitVideo ==
    /\ VideoIdle
    /\ CompositeIdle /\ CombineIdle /\ RouterIdle /\ OriginIdle /\ GraphIdle /\ StreamIdle /\ CallsIdle /\ SchedulerIdle

StartVideo == \E input \in Inputs : ProcessVideo_Start(input)

StartWithProgress == \E input \in Inputs : WithProgress_Start(input)

NextVideo ==
    \/ StartVideo
    \/ ProcessVideo_Download
    \/ ProcessVideo_Hash
    \/ AudioTrack_Extract
    \/ AudioTrack_Process
    \/ VisualFrames_Extract
    \/ VisualFrames_Upload
    \/ VisualFrames_Submit
    \/ VisualFrames_Wait
    \/ ProcessVideo_Gather
    \/ ProcessVideo_StoreOrigin
    \/ ProcessVideo_Cache
    \/ StartWithProgress
    \/ WithProgress_Download
    \/ WithProgress_Hash
    \/ WithProgress_Audio
    \/ WithProgress_Extract
    \/ WithProgress_Upload
    \/ WithProgress_Submit
    \/ WithProgress_Poll

SpecVideo == InitVideo /\ [][NextVideo]_vars

\* Runs of process_video_with_progress alone, over a cache that holds nothing
\* or the entry an earlier run of process_video wrote for one hash.
CachedVideos ==
    {[h \in HashKinds |-> NoEntry]} \cup
    {[h \in HashKinds |->
        IF h = k
        THEN Dumps(BuildResult(0, AudioNotFound,
                       ErrorResult("GPU batch job failed or timed out"), FALSE, k))
        ELSE NoEntry] : k \in HashKinds}

InitProgress ==
    /\ runs = 0
    /\ job = IdleJob
    /\ audio_task = IdleAudio
    /\ visual_task = IdleVisual
    /\ snapshots = << >>
    /\ fs = {}
    /\ storage = 0
    /\ video_cache \in CachedVideos
    /\ audio_cache = NoEntry
    /\ video_result = NoEntry
    /\ lineage = [h \in HashKinds |-> NoEntry]
    /\ CompositeIdle /\ CombineIdle /\ RouterIdle /\ OriginIdle /\ GraphIdle /\ StreamIdle /\ CallsIdle /\ SchedulerIdle

NextProgress ==
    \/ StartWithProgress
    \/ WithProgress_Download
    \/ WithProgress_Hash
    \/ AudioTrack_Extract
    \/ AudioTrack_Process
    \/ WithProgress_Audio
    \/ WithProgress_Extract
    \/ WithProgress_Upload
    \/ WithProgress_Submit
    \/ WithProgress_Poll

SpecProgress == InitProgress /\ [][NextProgress]_vars

\* The same runs when every step that can be taken eventually is: the event
\* loop resumes a coroutine whenever the call it awaits has returned, and
\* every awaited call returns.
FairSpecProgress == SpecProgress /\ WF_vars(NextProgress)

\* The pipeline when the cache may refuse the write of a job result, of a
\* video entry or of a lineage record (the progress snapshots are written).
NextVideoFaults ==
    \/ NextVideo
    \/ WithProgress_ResultWriteFails
    \/ ProcessVideo_StoreOriginFails
    \/ ProcessVideo_CacheFails

SpecVideoFaults == InitVideo /\ [][NextVideoFaults]_vars

\* The lineage service: origins are stored, read back, and their cache
\* entries expire.
MaxLineageArtifacts == 1
MaxLineageStores == 3
LineageArtifacts == 1 .. MaxLineageArtifacts

InitLineage ==
    /\ runs = 0
    /\ job = IdleJob
    /\ audio_task = IdleAudio
    /\ visual_task = IdleVisual
    /\ snapshots = << >>
    /\ fs = {}
    /\ storage = 0
    /\ video_cache = [h \in HashKinds |-> NoEntry]
    /\ audio_cache = NoEntry
    /\ video_result = NoEntry
    /\ lineage = [a \in ArtifactIds |-> NoEntry]
    /\ neo4j_enabled \in BOOLEAN
    /\ graph = EmptyGraph
    /\ batch = IdleBatch
    /\ stored = [last |-> [a \in ArtifactIds |-> NoAssignment], count |-> 0]
    /\ lineage_ret = NoLineageRet
    /\ CompositeIdle /\ CombineIdle /\ RouterIdle /\ OriginIdle /\ StreamIdle /\ CallsIdle /\ SchedulerIdle

StoreOrigin ==
    /\ stored.count < MaxLineageStores
    /\ \E a \in LineageArtifacts, assignment \in Assignments, graph_ok \in BOOLEAN :
        Lineage_StoreOrigin(a, assignment, graph_ok)
GetStoredOrigin == \E a \in LineageArtifacts : Lineage_GetOrigin(a)
ExpireLineage == \E a \in LineageArtifacts : Lineage_Expire(a)

NextLineage == StoreOrigin \/ GetStoredOrigin \/ ExpireLineage

SpecLineage == InitLineage /\ [][NextLineage]_vars

\* The spread graph: origins are stored and the batch job runs. Artifact a is
\* stored with origin a - 1 or origin a (the first and the last origin where
\* there is no such origin); the first MaxComposite artifacts are also stored
\* as composite artifacts, with such origins for the audio and the frames.
MaxStores == 5
MaxComposite == 2
NearOrigin(o) == IF o < 1 THEN 1 ELSE IF o > MaxOriginIds THEN MaxOriginIds ELSE o
NearOrigins(a) == {FoundOrigin(NearOrigin(o)) : o \in {a - 1, a}}
StoreNearOrigin ==
    \E a \in ArtifactIds :
        \/ \E o \in NearOrigins(a) :
              Lineage_StoreOrigin(a, Assignment(FALSE, o, NotFound, NotFound), TRUE)
        \/ /\ a <= MaxComposite
           /\ \E ao \in NearOrigins(a), vo \in NearOrigins(a) :
                 Lineage_StoreOrigin(a, Assignment(TRUE, NotFound, ao, vo), TRUE)
SpreadStoreOrigin == stored.count < MaxStores /\ StoreNearOrigin

NextSpread ==
    \/ SpreadStoreOrigin
    \/ BuildMultiHop_Start
    \/ BuildMultiHop_Spread
    \/ BuildMultiHop_AudioSpread
    \/ BuildMultiHop_VisualSpread
    \/ BuildMultiHop_Count
    \/ BuildMultiHop_Transitive
    \/ BuildMultiHop_Engagement

SpecSpread == InitLineage /\ [][NextSpread]_vars

\* The spread views: they are read once the stores and the runs are used up,
\* which every graph the stores and runs can build is reached with (a store
\* that is repeated and a run that fails at its first step change nothing).
MaxViewStores == 3
ViewStoreOrigin == stored.count < MaxViewStores /\ StoreNearOrigin
SpreadView ==
    /\ stored.count = MaxViewStores /\ batch.runs = MaxBatchRuns
    /\ \E a \in ArtifactIds, max_depth \in 1 .. MaxDepth :
          GetSpreadView(a, max_depth)

NextView ==
    \/ ViewStoreOrigin
    \/ BuildMultiHop_Start
    \/ BuildMultiHop_Spread
    \/ BuildMultiHop_AudioSpread
    \/ BuildMultiHop_VisualSpread
    \/ BuildMultiHop_Count
    \/ BuildMultiHop_Transitive
    \/ BuildMultiHop_Engagement
    \/ SpreadView

SpecView == InitLineage /\ [][NextView]_vars

\* The hop counts: the first MaxHopArtifacts artifacts are stored with any
\* origin, as plain artifacts, and the batch job runs between the stores.
MaxHopArtifacts == 3
MaxHopStores == 5
HopStoreOrigin ==
    /\ stored.count < MaxHopStores
    /\ \E a \in 1 .. MaxHopArtifacts, o \in OriginIds :
          Lineage_StoreOrigin(a, Assignment(FALSE, FoundOrigin(o), NotFound, NotFound),
                              TRUE)

NextHops ==
    \/ HopStoreOrigin
    \/ BuildMultiHop_Start
    \/ BuildMultiHop_Spread
    \/ BuildMultiHop_AudioSpread
    \/ BuildMultiHop_VisualSpread
    \/ BuildMultiHop_Count
    \/ BuildMultiHop_Transitive
    \/ BuildMultiHop_Engagement

SpecHops == InitLineage /\ [][NextHops]_vars

\* The progress stream of one run of process_video_with_progress: the
\* client connects at any time and the generator polls between the steps of
\* the run.
StreamRun == runs = 0 /\ StartWithProgress
NextStream ==
    \/ StreamRun
    \/ WithProgress_Download
    \/ WithProgress_Hash
    \/ AudioTrack_Extract
    \/ AudioTrack_Process
    \/ WithProgress_Audio
    \/ WithProgress_Extract
    \/ WithProgress_Upload
    \/ WithProgress_Submit
    \/ WithProgress_Poll
    \/ Stream_Connect
    \/ Stream_Poll

SpecStream == InitProgress /\ [][NextStream]_vars

\* The hop counts as the spread view reports them: the first MaxHopArtifacts
\* artifacts are stored with any origin, the batch job runs between the
\* stores, and the view of any of the artifacts is read once the stores and
\* the runs are used up (a store that is repeated and a run that fails at its
\* first step change nothing).
MaxHopViewStores == 4
HopViewStoreOrigin ==
    /\ stored.count < MaxHopViewStores
    /\ \E a \in 1 .. MaxHopArtifacts, o \in OriginIds :
          Lineage_StoreOrigin(a, Assignment(FALSE, FoundOrigin(o), NotFound, NotFound),
                              TRUE)
HopView ==
    /\ stored.count = MaxHopViewStores /\ batch.runs = MaxBatchRuns
    /\ \E a \in 1 .. MaxHopArtifacts, max_depth \in 1 .. MaxDepth :
          GetSpreadView(a, max_depth)
NextHopView ==
    \/ HopViewStoreOrigin
    \/ BuildMultiHop_Start
    \/ BuildMultiHop_Spread
    \/ BuildMultiHop_AudioSpread
    \/ BuildMultiHop_VisualSpread
    \/ BuildMultiHop_Count
    \/ BuildMultiHop_Transitive
    \/ BuildMultiHop_Engagement
    \/ HopView

SpecHopView == InitLineage /\ [][NextHopView]_vars

\* Concurrent store_origin calls, then get_origin with and without the cache
\* entry.
AllReturned == \A p \in Callers : calls.of[p].pc = "done"
CallWritesCache ==
    \E p \in Callers, a \in LineageArtifacts, assignment \in CallAssignments :
        StoreOrigin_Cache(p, a, assignment)
CallWritesGraph ==
    \E p \in Callers, graph_ok \in BOOLEAN : StoreOrigin_Graph(p, graph_ok)
GetAfterCalls == AllReturned /\ \E a \in LineageArtifacts : Lineage_GetOrigin(a)
ExpireAfterCalls == AllReturned /\ \E a \in LineageArtifacts : Lineage_Expire(a)
NextCalls == CallWritesCache \/ CallWritesGraph \/ GetAfterCalls \/ ExpireAfterCalls
SpecCalls == InitLineage /\ [][NextCalls]_vars

\* The scheduler: start and stop calls, the loop tasks and the clock. The
\* graph is empty, so a lineage graph update leaves it as it is.
InitScheduler ==
    /\ scheduler = IdleScheduler
    /\ neo4j_enabled \in BOOLEAN
    /\ graph = EmptyGraph
    /\ batch = IdleBatch
    /\ stored = [last |-> [a \in ArtifactIds |-> NoAssignment], count |-> 0]
    /\ lineage_ret = NoLineageRet
    /\ CompositeIdle /\ CombineIdle /\ RouterIdle /\ OriginIdle /\ VideoIdle
    /\ StreamIdle /\ CallsIdle
LoopRuns == \E l \in Loops : Loop_Run(l)
LoopTinEyeDone == \E l \in Loops : Loop_TinEyeDone(l)
LoopLineageDone == \E l \in Loops : Loop_LineageDone(l)
LoopWakes == \E l \in Loops : Loop_Wake(l)
NextScheduler ==
    \/ Scheduler_Start \/ Scheduler_Stop \/ Scheduler_Tick
    \/ LoopRuns \/ LoopTinEyeDone \/ LoopLineageDone \/ LoopWakes
SpecScheduler == InitScheduler /\ [][NextScheduler]_vars

\* --- next specification ---

(***************************************************************************)
(* Claims                                                                  *)
(***************************************************************************)
\* C1: _check_if_composite never raises, and returns true exactly when both
\* origins are found, both hits carry a non-empty channel id, the channel ids
\* differ and the visual origin's matching_frames is at least 2.
C1_CompositeIff ==
    t_ret.called =>
        /\ ~t_ret.raised
        /\ t_ret.value <=>
            /\ t_audio.kind = "origin" /\ t_visual.kind = "origin"
            /\ t_audio.origin.found = "True" /\ t_visual.origin.found = "True"
            /\ t_audio.origin.hit.channel_id \in Channels
            /\ t_visual.origin.hit.channel_id \in Channels
            /\ t_audio.origin.hit.channel_id # t_visual.origin.hit.channel_id
            /\ t_visual.origin.matching_frames >= 2

\* Witness: a composite verdict, and a refusal for one matching frame only.
C1_Witness ==
    /\ t_ret.called /\ t_ret.value
    /\ t_visual.origin.matching_frames = 2
    /\ t_audio.origin.hit.channel_id = "A"
    /\ t_visual.origin.hit.channel_id = "B"

\* The number of frames that have at least one hit of channel c.
FramesWith(c) ==
    Cardinality({i \in 1 .. Len(frame_origins) :
        \E j \in 1 .. Len(frame_origins[i].hits) :
            frame_origins[i].hits[j].channel_id = c})

\* C5 (as claimed): a found visual origin has a winning channel that occurs
\* in the hits of at least 2 different frames, and matching_frames equals the
\* number of frames voting for it, so that it never exceeds the number of
\* frames.
C5_VotesAreFrames ==
    (combined.called /\ combined.result.origin.found = "True") =>
        /\ FramesWith(combined.result.origin.hit.channel_id) >= 2
        /\ combined.result.origin.matching_frames =
               FramesWith(combined.result.origin.hit.channel_id)
        /\ combined.result.origin.matching_frames <= Len(frame_origins)

\* Witness of the divergence: one frame alone makes a found origin.
C5_SingleFrameFound ==
    /\ combined.called
    /\ Len(frame_origins) = 1
    /\ combined.result.origin.found = "True"

\* The positions <<frame, hit>> of the hits of channel c.
HitsOf(c) ==
    {p \in (1 .. Len(frame_origins)) \X (1 .. TopK) :
        /\ p[2] <= Len(frame_origins[p[1]].hits)
        /\ frame_origins[p[1]].hits[p[2]].channel_id = c}

HitAt(p) == frame_origins[p[1]].hits[p[2]]

\* C6: with the vote counts the code computes (one vote per hit): no channel
\* with 2 votes gives found=false and confidence 0; otherwise the winner has
\* the maximal count, the returned hit is a hit of the winner of maximal
\* confidence, the confidence is that maximum and matching_frames is the
\* winner's count.
C6_WinnerAndHit ==
    combined.called =>
        LET r == combined.result
            w == r.origin.hit.channel_id
        IN  IF \A c \in Channels : Cardinality(HitsOf(c)) <= 1
            THEN /\ r.origin.found = "False"
                 /\ r.origin.confidence = 0
                 /\ r.confidence = 0
            ELSE /\ r.origin.found = "True"
                 /\ w \in Channels
                 /\ \A c \in Channels : Cardinality(HitsOf(c)) <= Cardinality(HitsOf(w))
                 /\ r.origin.matching_frames = Cardinality(HitsOf(w))
                 /\ \E p \in HitsOf(w) : HitAt(p) = r.origin.hit
                 /\ \A p \in HitsOf(w) :
                        GetConfidence(HitAt(p)) <= GetConfidence(r.origin.hit)
                 /\ r.origin.confidence = GetConfidence(r.origin.hit)
                 /\ r.confidence = r.origin.confidence

\* Witness: the winner is not the first channel seen and its best hit is not
\* its first hit.
C6_Witness ==
    /\ combined.called
    /\ combined.result.origin.found = "True"
    /\ combined.result.origin.hit.channel_id = "B"
    /\ combined.result.origin.confidence = 1
    /\ Len(frame_origins) = 2
    /\ frame_origins[1].hits = <<[py |-> "dict", channel_id |-> "A", confidence |-> 1],
                                 [py |-> "dict", channel_id |-> "B", confidence |-> 0]>>

\* Witness: every channel has one vote.
C6_WitnessNoMajority ==
    /\ combined.called
    /\ combined.result.origin.found = "False"
    /\ Cardinality(HitsOf("A")) = 1
    /\ Cardinality(HitsOf("B")) = 1

\* C2 (as claimed): every search call caches its response, so that a second
\* search of the same query returns exactly the response of the first, and
\* the local index and the external search are each called at most once for
\* the query.
C2_SecondSearchCached ==
    \A i, j \in 1 .. Len(search_log) :
        (i < j /\ search_log[i].query = search_log[j].query) =>
            /\ search_log[i].ret.py = "dict"
            /\ search_log[j].ret = search_log[i].ret
            /\ vector_calls[search_log[i].query] <= 1
            /\ perplexity_calls[search_log[i].query] <= 1

\* C3 (as claimed): a search that finds no cache entry calls the external
\* search exactly when force_perplexity is set, or the local index returned
\* fewer than 3 hits, or the best local similarity is below 0.80.
C3_FallbackIff ==
    \A i \in 1 .. Len(search_log) :
        LET e == search_log[i]
            hits == SearchSimilarContent(index[e.query], LocalLimit, LocalThreshold)
        IN  ~e.cached =>
                (e.perplexity_called <=>
                    \/ e.force
                    \/ Len(hits) < 3
                    \/ \A k \in 1 .. Len(hits) : hits[k].similarity < 80)

\* The channel ids of the merged list.
MergedChannels ==
    {all_results[i].channel_id : i \in 1 .. Len(all_results)} \ {None}

ResultsOf(c) == {i \in 1 .. Len(all_results) : all_results[i].channel_id = c}

\* i is the earliest result of its channel: no result of the channel has an
\* earlier timestamp, nor the same one at an earlier place; a result without
\* a timestamp is later than all that have one.
EarliestOfChannel(i) ==
    \A k \in ResultsOf(all_results[i].channel_id) :
        \/ TimestampKey(all_results[k]) > TimestampKey(all_results[i])
        \/ (TimestampKey(all_results[k]) = TimestampKey(all_results[i]) /\ k >= i)

\* C4 (as claimed): at most 3 origins, one per channel, each the earliest
\* result of its channel, ascending by timestamp with missing timestamps
\* last, and every channel of the merged list has its entry (as long as there
\* are at most 3 channels), also when none of its results has a timestamp.
C4_OriginsPerChannel ==
    derived.called =>
        LET o == derived.origins
        IN  /\ Len(o) <= 3
            /\ \A i, j \in 1 .. Len(o) : i # j => o[i].channel_id # o[j].channel_id
            /\ \A i \in 1 .. Len(o) :
                   \E k \in 1 .. Len(all_results) :
                       all_results[k] = o[i] /\ EarliestOfChannel(k)
            /\ \A i, j \in 1 .. Len(o) :
                   i < j => TimestampKey(o[i]) <= TimestampKey(o[j])
            /\ Cardinality(MergedChannels) <= 3 =>
                   \A c \in MergedChannels : \E i \in 1 .. Len(o) : o[i].channel_id = c

\* The divergence: a channel of the merged list is missing from the origins
\* although there is room for it.
C4_ChannelDropped ==
    /\ derived.called
    /\ Len(all_results) = 2
    /\ all_results[1].channel_id = "A" /\ all_results[1].timestamp = 1
    /\ all_results[2].channel_id = "B" /\ all_results[2].timestamp = NoTimestamp
    /\ Len(derived.origins) = 1

Last(s) == s[Len(s)]

\* The failures of the visual steps that C8 names.
VisualFailures ==
    {"Failed to extract frames from video", "Failed to upload frames for processing",
     "Failed to submit GPU batch job", "GPU batch job failed",
     "GPU batch job timed out", "GPU batch job failed or timed out"}

AudioRunning == audio_task.pc \in {"extract_audio", "process_audio"}

\* The composite check has been made, or the cache write is about to be.
PastBarrier ==
    \/ job.pc \in {"store_origin", "cache"}
    \/ job.result.py # None
    \/ job.ret.kind = "result"

C7_SequentialInProgress ==
    /\ job.variant = "progress"
    /\ AudioRunning
    /\ visual_task.pc = "idle"

\* A branch of the finished run ended with one of the failures C8 names.
AudioFailed == GetError(audio_task.result) = "No audio track found in video"
VisualFailed == GetError(visual_task.result) \in VisualFailures

C8_SubmitFailedProgress ==
    /\ job.variant = "progress" /\ job.pc = "done"
    /\ GetError(visual_task.result) = "Failed to submit GPU batch job"

\* C9: when a run has returned, none of the temporary files it created is on
\* disk and none of the frame objects it uploaded is in storage.
C9_NothingLeftBehind ==
    job.pc = "done" => fs = {} /\ storage = 0

\* C9 witness: process_video has returned, its temporary files are gone and
\* the frames it uploaded are still in storage.
C9_UploadsRemain ==
    /\ job.variant = "plain" /\ job.pc = "done"
    /\ fs = {}
    /\ storage > 0

TerminalStatuses == {"complete", "error"}
LeftTerminal(snaps) ==
    \E i \in 1 .. Len(snaps) - 1 :
        /\ snaps[i].status \in TerminalStatuses
        /\ snaps[i + 1].status # snaps[i].status

\* C11: once a complete or error snapshot has been written for a job, no
\* snapshot of a different status is written for it.
C11_TerminalIsFinal == ~LeftTerminal(snapshots)

\* C11 witness: the complete snapshot of a cache hit is followed by the
\* error snapshot of the except block.
C11_CompleteThenError ==
    /\ job.variant = "progress" /\ job.pc = "done"
    /\ Len(snapshots) >= 2
    /\ snapshots[Len(snapshots) - 1].status = "complete"
    /\ Last(snapshots).status = "error"

\* The snapshots of the job that are not error snapshots, in the order written.
IsProgressSnapshot(snap) == snap.status # "error"
ProgressSnapshots == SelectSeq(snapshots, IsProgressSnapshot)
PollingStatuses ==
    {"gpu_job_in_progress", "gpu_job_in_queue", "gpu_job_cancelled",
     "gpu_job_pending"}

\* C12: over the successive non-error snapshots of a job the percent stays
\* within 0 .. 100 and never decreases, whatever statuses the GPU service
\* reports, and a snapshot written while polling has the percent of the
\* gpu_job_processing stage.
C12_PercentNeverDecreases ==
    \A i \in 1 .. Len(ProgressSnapshots) :
        /\ ProgressSnapshots[i].percent \in 0 .. 100
        /\ i < Len(ProgressSnapshots) =>
               ProgressSnapshots[i].percent <= ProgressSnapshots[i + 1].percent
        /\ ProgressSnapshots[i].status \in PollingStatuses =>
               ProgressSnapshots[i].percent = 60

\* C12 witness: the GPU job was reported IN_PROGRESS and then IN_QUEUE, and the
\* percent went from 65 down to 62.
C12_PercentWentDown ==
    \E i \in 1 .. Len(snapshots) - 1 :
        /\ snapshots[i] = Snap("gpu_job_in_progress", 65)
        /\ snapshots[i + 1] = Snap("gpu_job_in_queue", 62)

\* A run that found its fingerprint in the cache.
CacheHit(j) == j.pc = "done" /\ j.ret.kind = "from_cache"
\* A run of process_video whose branches have been started.
PlainWorking(j) == j.variant = "plain" /\ j.pc \in {"gather", "store_origin", "cache"}

SameAssignment(value, assignment) ==
    /\ value # NoneRecord
    /\ value.is_composite = assignment.is_composite
    /\ IF assignment.is_composite
       THEN /\ value.audio_origin = assignment.audio_origin
            /\ value.visual_origin = assignment.visual_origin
       ELSE value.origin_data = assignment.origin_data

\* C14: get_origin returns the assignment of the most recent store_origin for
\* the artifact, and nothing only when the artifact was never stored, whether
\* the cache entry is there or has expired.
C14_GetReturnsLatest ==
    lineage_ret.kind = "get_origin" =>
        LET latest == stored.last[lineage_ret.artifact_id]
        IN  IF latest = NoAssignment
            THEN lineage_ret.value = NoneRecord
            ELSE SameAssignment(lineage_ret.value, latest)

\* C14 witness: after two stores of different origins and the expiry of the
\* cache entry, get_origin returned the origin stored first.
C14_ReturnedEarlierOrigin ==
    /\ lineage_ret.kind = "get_origin"
    /\ neo4j_enabled
    /\ LET latest == stored.last[lineage_ret.artifact_id]
           value == lineage_ret.value
       IN  /\ latest # NoAssignment
           /\ ~latest.is_composite
           /\ latest.origin_data.id \in OriginIds
           /\ value # NoneRecord
           /\ ~value.is_composite
           /\ value.origin_data.id \in OriginIds
           /\ value.origin_data.id # latest.origin_data.id

\* The origin relationships of an artifact.
FromTypes == {"ORIGINATED_FROM", "AUDIO_FROM", "VISUAL_FROM"}
LatestOrigin(assignment, type) ==
    CASE type = "ORIGINATED_FROM" -> assignment.origin_data
      [] type = "AUDIO_FROM" -> assignment.audio_origin
      [] type = "VISUAL_FROM" -> assignment.visual_origin

\* C15: after any sequence of store_origin calls an artifact has at most one
\* ORIGINATED_FROM, one AUDIO_FROM and one VISUAL_FROM relationship, and when
\* the last call wrote an origin with an id to the graph, the relationship of
\* its type leads to that origin.
C15_OneEdgeToLatest ==
    \A a \in ArtifactIds, type \in FromTypes :
        /\ Cardinality(OriginsOf(graph, type, a)) <= 1
        /\ (/\ lineage_ret.kind = "store_origin" /\ lineage_ret.graph_stored
            /\ stored.last[a] # NoAssignment
            /\ LatestOrigin(stored.last[a], type).id \in OriginIds)
           => OriginsOf(graph, type, a) \subseteq {LatestOrigin(stored.last[a], type).id}

\* C15 witness: an artifact stored with one origin and then with another has
\* an ORIGINATED_FROM relationship to each.
C15_TwoOriginEdges ==
    \E a \in ArtifactIds :
        /\ Cardinality(OriginsOf(graph, "ORIGINATED_FROM", a)) >= 2
        /\ stored.count = 2

\* Two distinct artifacts have a relationship of the type to the same origin.
SharesOrigin(g, from_type, a1, a2) ==
    /\ a1 # a2
    /\ OriginsOf(g, from_type, a1) \cap OriginsOf(g, from_type, a2) # {}
\* The spread relationships of the type between two artifacts, in either
\* direction.
Between(g, spread_type, a1, a2) ==
    {e \in g.spread : e.type = spread_type /\ {e.a1, e.a2} = {a1, a2}}
\* The three edge-creation steps of a run.
SpreadSteps ==
    {[pc |-> "spread", next |-> "audio_spread",
      from |-> "ORIGINATED_FROM", spread |-> "SPREAD_TO"],
     [pc |-> "audio_spread", next |-> "visual_spread",
      from |-> "AUDIO_FROM", spread |-> "AUDIO_SPREAD_TO"],
     [pc |-> "visual_spread", next |-> "count",
      from |-> "VISUAL_FROM", spread |-> "VISUAL_SPREAD_TO"]}
AllSharingJoined(g) ==
    \A t \in SpreadSteps : \A a1 \in ArtifactIds, a2 \in ArtifactIds :
        SharesOrigin(g, t.from, a1, a2) => Between(g, t.spread, a1, a2) # {}

TwoHopPaths(edges, a, c) ==
    {p \in edges \X edges :
        /\ p[1] # p[2]
        /\ p[1].type = "SPREAD_TO" /\ p[2].type = "SPREAD_TO"
        /\ p[1].a1 = a /\ p[1].a2 = p[2].a1 /\ p[2].a2 = c}
HopSum(p) == p[1].hop_count + p[2].hop_count
HasDirect(edges, a, c) ==
    \E e \in edges : e.type = "SPREAD_TO" /\ e.a1 = a /\ e.a2 = c

\* C17: the transitive step creates, for every ordered pair (a, c) of distinct
\* artifacts with a two-hop path over SPREAD_TO relationships present when the
\* step starts and no direct relationship a -> c, exactly one relationship
\* a -> c, whose hop_count is the least sum over these paths; it creates
\* nothing else, so relationships it creates are not chained in the same run.
C17_TransitiveStep ==
    [][(batch.pc = "transitive" /\ batch'.pc = "engagement") =>
          /\ graph.spread \subseteq graph'.spread
          /\ \A a \in ArtifactIds, c \in ArtifactIds :
                LET paths == TwoHopPaths(graph.spread, a, c)
                    made == {e \in graph'.spread \ graph.spread :
                                e.a1 = a /\ e.a2 = c}
                IN  IF a # c /\ paths # {} /\ ~HasDirect(graph.spread, a, c)
                    THEN /\ Cardinality(made) = 1
                         /\ \A e \in made :
                               /\ e.type = "SPREAD_TO"
                               /\ \E p \in paths : HopSum(p) = e.hop_count
                               /\ \A p \in paths : HopSum(p) >= e.hop_count
                    ELSE made = {}]_vars

\* C17 witness: the transitive step has just created a relationship a -> c
\* for which the graph held two paths a -> b -> c with different sums, and it
\* has the smaller one.
C17_LeastOfTwoSums ==
    /\ batch.pc = "engagement"
    /\ LET made == {e \in graph.spread :
                       /\ e.type = "SPREAD_TO" /\ e.origin_id = 0
                       /\ e.created_at = batch.runs}
           before == graph.spread \ made
       IN  \E e \in made :
               \E p \in TwoHopPaths(before, e.a1, e.a2),
                  q \in TwoHopPaths(before, e.a1, e.a2) :
                   HopSum(p) = e.hop_count /\ HopSum(q) > e.hop_count

\* The artifacts with a relationship of any type to origin o, and the bucket
\* of a spread count.
PointingTo(g, o) == {e.a : e \in {f \in g.from : f.o = o}}
Bucket(n) ==
    CASE n > 100 -> 5 [] n > 50 /\ n <= 100 -> 4 [] n > 20 /\ n <= 50 -> 3
      [] n > 5 /\ n <= 20 -> 2 [] OTHER -> 1
EngagementDone ==
    batch.pc = "engagement" /\ batch'.pc = "done" /\ batch'.stats.status = "success"

\* C18: after the engagement step every origin in the graph has spread_count
\* equal to the number of distinct artifacts pointing to it, and
\* engagement_score 5, 4, 3, 2 or 1 as spread_count is above 100, 50, 20, 5
\* or not.
C18_EveryOriginScored ==
    [][EngagementDone =>
          \A o \in DOMAIN graph'.origin :
              graph'.origin[o].exists =>
                  /\ graph'.origin[o].spread_count =
                         Cardinality(PointingTo(graph', o))
                  /\ graph'.origin[o].engagement_score =
                         Bucket(graph'.origin[o].spread_count)]_vars

\* C18 witness of the divergence: a run has ended with success while an
\* origin that artifacts point to through AUDIO_FROM or VISUAL_FROM only has
\* no spread_count and no engagement_score.
C18_CompositeOriginUnscored ==
    /\ batch.pc = "done" /\ batch.stats.status = "success"
    /\ \E o \in DOMAIN graph.origin :
          /\ graph.origin[o].exists
          /\ PointingTo(graph, o) # {}
          /\ o \notin PointedOrigins(graph)
          /\ graph.origin[o].spread_count = Unset
          /\ graph.origin[o].engagement_score = Unset

\* A step of the batch job has failed: the job leaves a running position with
\* status error.
RunningSteps ==
    {"spread", "audio_spread", "visual_spread", "count", "transitive",
     "engagement"}
StepFailed ==
    /\ batch.pc \in RunningSteps
    /\ batch'.pc = "done" /\ batch'.stats.status = "error"

\* C19: when a step of build_multi_hop_graph fails the job returns its stats
\* with an error field; relationships_created is the number of relationships
\* the run has created in the steps before the failure, artifacts_processed
\* is the artifact count if the count step completed and 0 otherwise, and the
\* graph keeps the changes of the earlier steps.
C19_FailureKeepsProgress ==
    [][StepFailed =>
          /\ batch'.stats.error # Absent
          /\ graph' = graph
          /\ batch'.stats.relationships_created =
                 Cardinality(graph.spread) - batch.spread_before
          /\ batch'.stats.relationships_created =
                 batch.stats.relationships_created
          /\ batch'.stats.artifacts_processed =
                 IF batch.pc \in {"transitive", "engagement"}
                 THEN Cardinality({a \in ArtifactIds : graph.artifact[a].exists})
                 ELSE 0]_vars

\* C19 witness: a run has ended with an error after the count step, with
\* relationships created and artifacts counted before the failure.
C19_FailedAfterProgress ==
    /\ batch.pc = "done"
    /\ batch.stats.status = "error" /\ batch.stats.error # Absent
    /\ batch.stats.relationships_created > 0
    /\ batch.stats.artifacts_processed > 0
    /\ Cardinality(graph.spread) - batch.spread_before =
           batch.stats.relationships_created

\* The items of one list of a view (the standard list has no component), and
\* the limit of a list.
ItemsOf(items, component) ==
    SelectSeq(items, LAMBDA r : r.component = component)
SpreadTypeOf(component) ==
    CASE component = "audio" -> "AUDIO_SPREAD_TO"
      [] component = "visual" -> "VISUAL_SPREAD_TO"
      [] OTHER -> "SPREAD_TO"
LimitOf(component) ==
    IF component = Absent THEN StandardLimit ELSE ComponentLimit
ViewReturned ==
    lineage_ret.kind = "spread_view" /\ lineage_ret.status = "success"

\* C20: a successful get_spread_view(a, max_depth) returns, in each of its
\* lists (standard, and audio and visual when a is composite), every artifact
\* at most once, each within max_depth outgoing spread relationships of a
\* and with hop_count the least number of relationships of a path from a,
\* ordered by hop_count and then origin timestamp, at most 100 standard items
\* and 50 per component, and total_items is the number of items.
C20_ViewListsEachOnce ==
    ViewReturned =>
       LET items == lineage_ret.spread_items
       IN  /\ lineage_ret.total_items = Len(items)
           /\ \A component \in {Absent, "audio", "visual"} :
                 LET list == ItemsOf(items, component)
                 IN  /\ Len(list) <= LimitOf(component)
                     /\ component # Absent /\ list # << >>
                            => lineage_ret.is_composite
                     /\ \A i \in 1 .. Len(list), j \in 1 .. Len(list) :
                           /\ i # j => list[i].artifact_id # list[j].artifact_id
                           /\ i < j =>
                                \/ list[i].hop_count < list[j].hop_count
                                \/ /\ list[i].hop_count = list[j].hop_count
                                   /\ list[i].timestamp <= list[j].timestamp
                     /\ \A i \in 1 .. Len(list) :
                           LET lengths ==
                                   {k \in 1 .. lineage_ret.max_depth :
                                       list[i].artifact_id \in
                                           ReachedAt(graph, SpreadTypeOf(component),
                                               lineage_ret.artifact_id, k)}
                           IN  /\ lengths # {}
                               /\ list[i].hop_count \in lengths
                               /\ \A k \in lengths : list[i].hop_count <= k

\* C20 witness of the divergence: a view whose standard list holds the same
\* artifact twice, once for each origin the artifact has an ORIGINATED_FROM
\* relationship to.
C20_ArtifactListedTwice ==
    /\ ViewReturned
    /\ LET list == ItemsOf(lineage_ret.spread_items, Absent)
       IN  \E i \in 1 .. Len(list), j \in 1 .. Len(list) :
               /\ i < j
               /\ list[i].artifact_id = list[j].artifact_id
               /\ list[i].origin_id # list[j].origin_id
               /\ list[i].hop_count = list[j].hop_count

\* The hits of the local index for a query, as a cache miss merges them.
LocalOnly(query) ==
    SortByScore(MapLocal(SearchSimilarContent(index[query], LocalLimit,
                                              LocalThreshold)), << >>)

\* C21 (as claimed): a search that finds no cache entry returns a response,
\* also when the external search raises, and then the response is built
\* from the local hits only, with perplexity_used false.
C21_FallbackFailureDegrades ==
    \A i \in 1 .. Len(search_log) :
        LET e == search_log[i]
        IN  ~e.cached =>
               /\ e.ret.py = "dict"
               /\ e.perplexity_raised =>
                     /\ e.ret.perplexity_used = FALSE
                     /\ e.ret.results = Take(LocalOnly(e.query), MaxRanked)

\* C21 witness of the divergence: a search that found no cache entry has
\* returned without a response and without consulting the local index.
C21_MissWithoutResponse ==
    \E i \in 1 .. Len(search_log) :
        /\ ~search_log[i].cached
        /\ search_log[i].ret.py # "dict"
        /\ ~search_log[i].vector_called
        /\ Len(SearchSimilarContent(index[search_log[i].query], LocalLimit,
                                    LocalThreshold)) > 0

\* The plain run has built its result and is at the write of video:<hash>.
AtCacheWrite == job.variant = "plain" /\ job.pc = "cache"

\* C22 (as claimed): a process_video call that has built its combined result
\* returns this result, with its origins, is_composite and hash, whether or
\* not the write of video:<hash> succeeds.
C22_WriteFailureStillReturns ==
    [][(AtCacheWrite /\ job'.pc = "done") =>
          /\ job'.ret.kind = "result"
          /\ ReturnedDict(job') = job.result
          /\ ReturnedDict(job').hash = job.video_hash]_vars

\* C22 witness of the divergence: a plain run built a result, the cache
\* holds no entry for the video, and the caller got the error dict.
C22_ResultLostToWriteError ==
    /\ job.variant = "plain" /\ job.pc = "done"
    /\ job.result # NoResult
    /\ job.ret.kind = "error"
    /\ ReturnedDict(job) = [py |-> "dict", error |-> "RedisError"]
    /\ video_cache[job.video_hash].py = Absent

\* The record the pipeline hands to store_origin for a pair of branch
\* results once _check_if_composite has returned (lines 122-130, 630-639):
\* the origins are result.get("origin").
PersistedRecord ==
    LineageRecord("file", t_ret.value, OriginOrNone(t_audio), OriginOrNone(t_visual))
RecordWritten ==
    /\ t_ret.called /\ ~t_ret.raised
    /\ ResultTruthy(t_audio) \/ ResultTruthy(t_visual)

\* C23: a lineage record the pipeline persists with is_composite true has
\* audio_origin.found and visual_origin.found true and different channel ids
\* in the two origins' hits.
C23_CompositeRecordSound ==
    (RecordWritten /\ PersistedRecord.is_composite) =>
        /\ PersistedRecord.audio_origin.found = "True"
        /\ PersistedRecord.visual_origin.found = "True"
        /\ PersistedRecord.audio_origin.hit.channel_id \in Channels
        /\ PersistedRecord.visual_origin.hit.channel_id \in Channels
        /\ PersistedRecord.audio_origin.hit.channel_id #
               PersistedRecord.visual_origin.hit.channel_id

\* C23 witness: a composite record is written for a pair of found origins.
C23_CompositeRecordWritten ==
    /\ RecordWritten
    /\ PersistedRecord.is_composite
    /\ PersistedRecord.audio_origin = t_audio.origin
    /\ PersistedRecord.visual_origin = t_visual.origin

\* The last pass of wait_for_completion in a plain run.
LastWait == visual_task.wait
Waited == job.variant = "plain" /\ LastWait.ending # "none"
TimeoutError == "Timeout after 300 seconds"

\* C24 (as claimed): the wait for the GPU job ends with the job result when
\* the job reports COMPLETED, with a failed error when it reports FAILED and
\* with a different, timed out error at the deadline; while the job reports
\* IN_QUEUE or IN_PROGRESS before the deadline the wait goes on, and at the
\* deadline no status is read.
C24_WaitEndsAsClaimed ==
    Waited =>
        /\ (visual_task.pc = "done" /\ visual_task.polls >= MaxPolls)
               => LastWait.ending = "timeout"
        /\ LastWait.ending = "timeout" =>
               /\ LastWait.status = NoStatus
               /\ LastWait.error = TimeoutError
        /\ LastWait.ending # "timeout" =>
               /\ LastWait.status.status = "COMPLETED"
                      => LastWait.ending = "completed"
               /\ LastWait.status.status = "FAILED" =>
                      /\ LastWait.ending = "failed"
                      /\ LastWait.error \notin {Absent, TimeoutError}
               /\ LastWait.status.status \in {"IN_QUEUE", "IN_PROGRESS"} =>
                      /\ LastWait.ending = "waiting"
                      /\ visual_task.pc = "wait"

\* C24 witness of the divergence: the first status read says IN_QUEUE in a
\* body without a true success field; the wait has ended before the deadline
\* with that body, which carries no error text, and the branch reports
\* "failed or timed out".
C24_QueuedJobEndsWait ==
    /\ Waited
    /\ visual_task.pc = "done" /\ visual_task.polls = 0
    /\ LastWait.ending = "status"
    /\ LastWait.status = [success |-> FALSE, status |-> "IN_QUEUE"]
    /\ LastWait.error = Absent
    /\ visual_task.result = ErrorResult("GPU batch job failed or timed out")

\* A run of the batch job has ended with success.
RunSucceeded == batch.pc = "done" /\ batch.stats.status = "success"

\* C25 (as claimed): no spread relationship is ever removed, and after a run
\* of the batch job every SPREAD_TO relationship has a hop_count of at least
\* 1 that is 1 when its two artifacts have an origin in common.
C25_HopCountIsMinimum ==
    [][/\ graph.spread \subseteq graph'.spread
       /\ RunSucceeded' =>
             \A e \in SpreadEdges(graph', "SPREAD_TO") :
                 /\ e.hop_count >= 1
                 /\ SharesOrigin(graph', "ORIGINATED_FROM", e.a1, e.a2)
                        => e.hop_count = 1]_vars

\* C25 witness of the divergence: the second run has ended with success; a
\* relationship the first run created with hop_count 2 joins two artifacts
\* that now have an origin in common, and no relationship between them has
\* hop_count 1.
C25_StaleHopCount ==
    /\ RunSucceeded /\ batch.runs = 2
    /\ \E e \in SpreadEdges(graph, "SPREAD_TO") :
          /\ e.hop_count = 2 /\ e.created_at = 1
          /\ SharesOrigin(graph, "ORIGINATED_FROM", e.a1, e.a2)
          /\ \A f \in SpreadEdges(graph, "SPREAD_TO") :
                ({f.a1, f.a2} = {e.a1, e.a2}) => f.hop_count = 2

\* The spread relationships of one kind from a1 to a2.
FromTo(g, spread_type, a1, a2) ==
    {e \in SpreadEdges(g, spread_type) : e.a1 = a1 /\ e.a2 = a2}
SpreadTypes == {"SPREAD_TO", "AUDIO_SPREAD_TO", "VISUAL_SPREAD_TO"}

\* C26 (as claimed): however often build_multi_hop_graph has run, no ordered
\* pair of artifacts has more than one spread relationship of the same kind.
C26_OneEdgePerPair ==
    \A a1 \in ArtifactIds, a2 \in ArtifactIds, spread_type \in SpreadTypes :
        Cardinality(FromTo(graph, spread_type, a1, a2)) <= 1

\* C26 witness of the divergence: two runs have ended with success, the
\* second one created nothing, and an ordered pair of artifacts has two
\* SPREAD_TO relationships, one for each origin the two artifacts share.
C26_PairJoinedTwice ==
    /\ RunSucceeded /\ batch.runs = 2
    /\ batch.stats.relationships_created = 0
    /\ \E a1 \in ArtifactIds, a2 \in ArtifactIds :
          \E e \in FromTo(graph, "SPREAD_TO", a1, a2),
             f \in FromTo(graph, "SPREAD_TO", a1, a2) :
              /\ e.origin_id # f.origin_id
              /\ e.hop_count = 1 /\ f.hop_count = 1
              /\ e.created_at = 1 /\ f.created_at = 1

\* C27: the progress stream terminates after an error snapshot as it does
\* after a complete one: every emitted snapshot with status complete or
\* error is followed at once by the closed event, and the generator has
\* stopped polling.
TerminalUpdate(e) == e.kind = "progress" /\ e.status \in {"complete", "error"}
VideoEntryWritten(h) == video_cache'[h] # video_cache[h]
SearchEntryWritten(k) == redis'[k] # redis[k]
Statuses == [i \in 1 .. Len(snapshots) |-> snapshots[i].status]
IsPathOf(first, steps) ==
    /\ Len(Statuses) > 0 => Statuses[1] = first
    /\ \A i \in 1 .. Len(Statuses) - 1 : <<Statuses[i], Statuses[i + 1]>> \in steps
Chain(seq) == {<<seq[i], seq[i + 1]>> : i \in 1 .. Len(seq) - 1}
ErrorFrom(states) == {<<st, "error">> : st \in states}

\* The Job state machine as the specification draws it; the audio status and
\* the frame statuses are taken in either order.
MachineStates ==
    {"starting", "downloading", "metadata", "hashing", "audio_processing",
     "extracting_frames", "uploading_frames", "gpu_job_submit",
     "gpu_job_processing", "combining_origins", "checking_composite",
     "preparing_result"}
MachineSteps ==
    Chain(<<"starting", "downloading", "metadata", "hashing", "audio_processing",
            "extracting_frames", "uploading_frames", "gpu_job_submit",
            "gpu_job_processing", "gpu_job_processing", "combining_origins",
            "checking_composite", "preparing_result", "complete">>)
    \cup {<<"starting", "metadata">>, <<"hashing", "extracting_frames">>,
          <<"audio_processing", "combining_origins">>,
          <<"gpu_job_processing", "audio_processing">>}
    \cup ErrorFrom(MachineStates)

\* The statuses process_video_with_progress writes, in the order of its
\* lines 472-665.
AudioEnds == {"audio_warning", "audio_complete"}
PollStatuses ==
    {"gpu_job_in_progress", "gpu_job_in_queue", "gpu_job_cancelled",
     "gpu_job_pending"}
WrittenStates ==
    MachineStates \cup AudioEnds \cup PollStatuses
        \cup {"getting_gpu_results", "processing_embeddings",
              "finding_visual_origins", "complete"}
WrittenSteps ==
    Chain(<<"starting", "downloading", "metadata", "hashing", "audio_processing">>)
    \cup {<<"starting", "metadata">>, <<"hashing", "complete">>}
    \cup {<<"audio_processing", a>> : a \in AudioEnds}
    \cup {<<a, "extracting_frames">> : a \in AudioEnds}
    \cup Chain(<<"extracting_frames", "uploading_frames", "gpu_job_submit",
                 "gpu_job_processing">>)
    \cup ({"gpu_job_processing"} \cup PollStatuses)
             \X (PollStatuses \cup {"getting_gpu_results"})
    \cup Chain(<<"getting_gpu_results", "processing_embeddings",
                 "finding_visual_origins", "combining_origins",
                 "checking_composite", "preparing_result", "complete">>)
    \cup ErrorFrom(WrittenStates)

GpuJobCompleted ==
    /\ job.variant = "progress" /\ job.pc = "done"
    /\ \E i \in 1 .. Len(Statuses) : Statuses[i] = "getting_gpu_results"

\* C30: when every step of process_video_with_progress succeeds for an
\* uncached video, the run ends with the snapshot complete at 100, the
\* result is stored under video:<hash> and video_result:<jobId>, and the
\* call returns the result.
C30_SuccessEndsComplete ==
    GpuJobCompleted
        => /\ snapshots[Len(snapshots)] = Snap("complete", 100)
           /\ job.ret.kind = "result"
           /\ video_cache[job.video_hash] = Dumps(job.ret.result)
           /\ video_result = Dumps(job.ret.result)

\* C30: the GPU job reported COMPLETED and the run ended with the error
\* snapshot, returned an error and stored nothing.
C30_CompletedJobEndsInError ==
    /\ GpuJobCompleted
    /\ snapshots[Len(snapshots)] = Snap("error", 0)
    /\ job.ret.kind = "error"
    /\ video_cache[job.video_hash] = NoEntry
    /\ video_result = NoEntry

\* The results the two branches of process_video can hand to
\* _check_if_composite: every return statement of _process_audio_track and
\* of _process_visual_frames, over everything their upstream calls can give.
AudioCaches == {NoEntry, Dumps(AudioNotFound)}
AudioBranchResults ==
    {ErrorResult("No audio track found in video")}
        \cup {ProcessAudio(cache, whisper).result :
                 cache \in AudioCaches, whisper \in WhisperResults}
VisualBranchResults ==
    {ErrorResult("Failed to extract frames from video"),
     ErrorResult("Failed to upload frames for processing"),
     ErrorResult("Failed to submit GPU batch job")}
        \cup {VisualAfterWait(WaitForCompletion(polls, status, job_result).value) :
                 polls \in 0 .. MaxPolls, status \in JobStatuses,
                 job_result \in JobResults}
BranchResultsProduced ==
    /\ audio_task.pc = "done" => audio_task.result \in AudioBranchResults
    /\ (job.variant = "plain" /\ visual_task.pc = "done")
           => visual_task.result \in VisualBranchResults

\* C31: is_composite = true is a reachable outcome of the pipeline: among the
\* results its audio branch and its visual branch produce there is a pair
\* (an audio origin on one channel, a visual origin with at least 2 matching
\* frames on another) for which a call of process_video that has started its
\* branches returns is_composite = true.
C31_CompositeOutcomeReachable ==
    (job.variant = "plain" /\ job.pc = "gather")
        => \E audio_result \in AudioBranchResults,
              visual_result \in VisualBranchResults :
                /\ CheckIfComposite(audio_result, visual_result) = Returned(TRUE)
                /\ BuildResult(job.job_id, audio_result, visual_result, TRUE,
                               job.video_hash).is_composite

\* No finished call of process_video has returned or persisted a composite.
NeverComposite ==
    /\ (job.variant = "plain" /\ job.ret.kind = "result")
           => ~job.ret.result.is_composite
    /\ \A h \in DOMAIN lineage : lineage[h] # NoEntry => ~lineage[h].is_composite

\* C31: both branches of a call of process_video ran as far as they can (the
\* audio was transcribed, the GPU job returned embeddings), each ended in the
\* error dict of a call to a method that does not exist, and the call
\* returned and persisted is_composite = false.
C31_FullRunNotComposite ==
    /\ job.variant = "plain" /\ job.pc = "done" /\ job.ret.kind = "result"
    /\ job.audio_result = ErrorResult("AttributeError: query")
    /\ job.visual_result = ErrorResult("AttributeError: search_by_embedding")
    /\ ~job.ret.result.is_composite
    /\ lineage[job.video_hash] # NoEntry
    /\ ~lineage[job.video_hash].is_composite

\* The searches of a query that found no cache entry.
Misses(query) ==
    {i \in 1 .. Len(search_log) :
        search_log[i].query = query /\ ~search_log[i].cached}

\* C32 (as claimed): a search that finds no cache entry for the query hash
\* queries the local index exactly once, with limit 5 and threshold 0.70,
\* and returns a response that carries query_hash, perplexity_used, results,
\* origins and confidence, with a non-empty results list whenever the local
\* index has a hit.
C32_MissQueriesIndexOnce ==
    \A query \in Queries :
        /\ vector_calls[query] = Cardinality(Misses(query))
        /\ \A i \in Misses(query) :
              LET e == search_log[i]
                  hits == SearchSimilarContent(index[query], LocalLimit,
                                               LocalThreshold)
              IN  /\ e.vector_called
                  /\ e.ret.py = "dict"
                  /\ e.ret.query_hash = Sha256(query)
                  /\ e.ret.perplexity_used \in BOOLEAN
                  /\ Len(e.ret.origins) <= MaxOrigins
                  /\ e.ret.confidence \in Nat
                  /\ Len(hits) > 0 => Len(e.ret.results) > 0

\* C32: two searches of one query have found no cache entry; each returned
\* the coroutine object of its get_cache call and the local index was never
\* queried.
C32_MissReturnsCoroutine ==
    \E i, j \in 1 .. Len(search_log) :
        /\ i < j
        /\ search_log[i].query = search_log[j].query
        /\ ~search_log[i].cached /\ ~search_log[j].cached
        /\ search_log[i].ret.py = "coroutine" /\ search_log[j].ret.py = "coroutine"
        /\ search_log[i].ret.of = "get_cache"
        /\ vector_calls[search_log[i].query] = 0

\* The graph has every relationship the queries of build_multi_hop_graph
\* would create.
Closed(g) ==
    /\ NewSpreadEdges(g, "ORIGINATED_FROM", "SPREAD_TO", 0) = {}
    /\ NewSpreadEdges(g, "AUDIO_FROM", "AUDIO_SPREAD_TO", 0) = {}
    /\ NewSpreadEdges(g, "VISUAL_FROM", "VISUAL_SPREAD_TO", 0) = {}
    /\ TransitiveEdges(g, 0) = {}
RunEnds ==
    /\ batch.pc = "engagement"
    /\ batch'.pc = "done" /\ batch'.stats.status = "success"
CreatedBy(g, run) == {e \in g.spread : e.created_at = run}

\* C33: repeated runs of build_multi_hop_graph converge. A step creates
\* spread relationships only from an artifact to an artifact it has no such
\* relationship to yet, so only finitely many runs create any; a run that
\* ends having created none leaves a graph in which, as long as no origin
\* assignment is stored, no later run creates one.
C33_RunsConverge ==
    [][/\ \A e \in graph'.spread \ graph.spread :
             ~\E f \in graph.spread :
                 f.type = e.type /\ f.a1 = e.a1 /\ f.a2 = e.a2
       /\ (RunEnds /\ batch'.stats.relationships_created = 0) => Closed(graph')
       /\ (Closed(graph) /\ graph'.from = graph.from)
             => /\ graph'.spread = graph.spread
                /\ Closed(graph')
       /\ RunEnds => batch'.stats.relationships_created =
                         Cardinality(CreatedBy(graph', batch.runs))
      ]_vars

\* C33: the three-artifact case. Artifacts 1 and 2 share an origin, 2 and 3
\* share another one, 1 and 3 share none; the first run created the
\* relationship from 1 to 3 with hop_count 2 and the second run, with nothing
\* stored in between, has ended and created nothing.
C33_SecondRunCreatesNothing ==
    /\ RunSucceeded /\ batch.runs = 2
    /\ batch.stats.relationships_created = 0
    /\ CreatedBy(graph, 2) = {}
    /\ OriginsOf(graph, "ORIGINATED_FROM", 1) \cap
           OriginsOf(graph, "ORIGINATED_FROM", 3) = {}
    /\ \E e \in CreatedBy(graph, 1) :
          e.type = "SPREAD_TO" /\ e.a1 = 1 /\ e.a2 = 3 /\ e.hop_count = 2
    /\ \A e \in graph.spread :
          (e.a1 = 1 /\ e.a2 = 3) => (e.hop_count = 2 /\ e.created_at = 1)
    /\ Cardinality(CreatedBy(graph, 1)) >= 6

\* The shared-origin links: two artifacts are linked when both point to one
\* origin with ORIGINATED_FROM. BaseDistances are the numbers of links of the
\* walks from a to b.
BaseLinked(g, a, b) ==
    /\ a # b
    /\ OriginsOf(g, "ORIGINATED_FROM", a) \cap OriginsOf(g, "ORIGINATED_FROM", b) # {}
RECURSIVE BaseReached(_, _, _)
BaseReached(g, a, k) ==
    IF k = 0 THEN {a}
    ELSE {b \in ArtifactIds : \E n \in BaseReached(g, a, k - 1) : BaseLinked(g, n, b)}
BaseDistances(g, a, b) == {k \in 1 .. MaxArtifacts : b \in BaseReached(g, a, k)}
ViewSucceeded == lineage_ret.kind = "spread_view" /\ lineage_ret.status = "success"
\* The standard items of the last view that are not the queried artifact.
OtherItems ==
    {i \in 1 .. Len(lineage_ret.spread_items) :
        /\ lineage_ret.spread_items[i].component = Absent
        /\ lineage_ret.spread_items[i].artifact_id # lineage_ret.artifact_id}

\* C34 (as claimed): the hop_count get_spread_view reports for an artifact is
\* the least number of shared-origin links between the queried artifact and
\* it, and it is the hop_count stored on every spread relationship from the
\* queried artifact to it.
C34_ViewReportsLeastLinks ==
    ViewSucceeded =>
        \A i \in OtherItems :
            LET item == lineage_ret.spread_items[i]
                a == lineage_ret.artifact_id
            IN  /\ BaseDistances(graph, a, item.artifact_id) # {}
                /\ item.hop_count = MinHops(BaseDistances(graph, a, item.artifact_id))
                /\ \A e \in SpreadEdges(graph, "SPREAD_TO") :
                      (e.a1 = a /\ e.a2 = item.artifact_id)
                          => e.hop_count = item.hop_count

\* C34: after a run that left nothing to create, the view lists an artifact
\* with hop_count 1 that shares no origin
\* with the queried artifact, is two links away from it, and whose only
\* spread relationship from the queried artifact stores hop_count 2.
C34_TwoLinksReportedAsOne ==
    /\ ViewSucceeded /\ RunSucceeded /\ Closed(graph)
    /\ \E i \in OtherItems :
          LET item == lineage_ret.spread_items[i]
              a == lineage_ret.artifact_id
          IN  /\ item.hop_count = 1
              /\ ~BaseLinked(graph, a, item.artifact_id)
              /\ MinHops(BaseDistances(graph, a, item.artifact_id)) = 2
              /\ \E e \in SpreadEdges(graph, "SPREAD_TO") :
                    e.a1 = a /\ e.a2 = item.artifact_id
              /\ \A e \in SpreadEdges(graph, "SPREAD_TO") :
                    (e.a1 = a /\ e.a2 = item.artifact_id) => e.hop_count = 2

\* The concurrent calls all stored an origin for artifact a, in the cache and
\* in the graph, and have returned.
AllStored(a) ==
    /\ AllReturned
    /\ \A p \in Callers : calls.of[p].artifact_id = a /\ calls.of[p].graph_stored
\* The caller of the last write of the kind.
LastWriter(kind) ==
    LET writes == {i \in 1 .. Len(calls.order) : calls.order[i][2] = kind}
    IN  calls.order[CHOOSE i \in writes : \A j \in writes : j <= i][1]

\* C35: after concurrent store_origin calls for the same artifact have all
\* completed, in any interleaving of their cache writes and graph writes, the
\* record get_origin reads from the cache and every record it can read from
\* the graph carry the same assignment.
C35_CacheAndGraphAgree ==
    \A a \in LineageArtifacts :
        (AllStored(a) /\ lineage[a] # NoEntry) =>
            \A graph_data \in GetFromGraph(graph, a) :
                SameAssignment(graph_data, Loads(lineage[a]))

\* C35 witness: two calls stored different origins for the artifact; the
\* cache was last written by one call and the graph by the other, the cache
\* holds the record of the first and get_origin can read the origin of the
\* second from the graph.
C35_CacheOfOneGraphOfOther ==
    \E a \in LineageArtifacts, p, q \in Callers :
        /\ AllStored(a)
        /\ p # q
        /\ LastWriter("cache") = p
        /\ LastWriter("graph") = q
        /\ ~calls.of[p].assignment.is_composite
        /\ ~calls.of[q].assignment.is_composite
        /\ calls.of[p].assignment.origin_data.found
        /\ calls.of[q].assignment.origin_data.found
        /\ calls.of[p].assignment # calls.of[q].assignment
        /\ lineage[a] = Dumps(StoredRecord(a, calls.of[p].assignment))
        /\ \E graph_data \in GetFromGraph(graph, a) :
            SameAssignment(graph_data, calls.of[q].assignment)

\* The errors a branch reports when a service it calls failed.
UpstreamErrors ==
    {"whisper", "Failed to upload frames for processing",
     "Failed to submit GPU batch job", "GPU batch job failed or timed out"}
FailedUpstream(r) == r.kind = "error" /\ r.error \in UpstreamErrors
\* The run of process_video returned its result, and one of its branches had
\* ended with an upstream error.
ReturnedAfterFailure ==
    /\ job.variant = "plain" /\ job.pc = "done" /\ job.ret.kind = "result"
    /\ FailedUpstream(job.audio_result) \/ FailedUpstream(job.visual_result)
\* The test of line 77 on a resubmission of the video with this hash: the
\* entry is returned and no branch runs.
ServedFromCache(video_hash) == video_cache[video_hash].py # Absent

\* C36: after a process_video run in which a branch ended with an upstream
\* error, a resubmission of the same video is not served from the entry
\* video:<hash>, so the branch runs again.
C36_FailureNotServedFromCache ==
    ReturnedAfterFailure => ~ServedFromCache(job.video_hash)

\* C36 witness: the GPU job of a run timed out; the run returned a result
\* without a visual origin and wrote it to video:<hash>, which a
\* resubmission returns.
C36_TimedOutRunCached ==
    /\ ReturnedAfterFailure
    /\ job.visual_result = ErrorResult("GPU batch job failed or timed out")
    /\ job.result.origins.visual = NoneOrigin
    /\ ServedFromCache(job.video_hash)
    /\ Loads(video_cache[job.video_hash]) = job.result

\* The items of the last view that are the queried artifact.
SelfItems ==
    {i \in 1 .. Len(lineage_ret.spread_items) :
        lineage_ret.spread_items[i].artifact_id = lineage_ret.artifact_id}

\* C37: get_spread_view(a, max_depth) never lists the queried artifact among
\* its spread items, on any graph that store_origin calls followed by runs of
\* build_multi_hop_graph produce.
C37_ViewOmitsQueriedArtifact == ViewSucceeded => SelfItems = {}

\* C37 witness: after a run, a view of depth 2 lists the queried artifact
\* with hop_count 2: it is reached over the relationship to an artifact of
\* the same origin and the relationship back.
C37_QueriedArtifactListed ==
    /\ ViewSucceeded
    /\ batch.runs > 0
    /\ lineage_ret.max_depth = 2
    /\ \E i \in SelfItems :
        /\ lineage_ret.spread_items[i].component = Absent
        /\ lineage_ret.spread_items[i].hop_count = 2
        /\ \E b \in ArtifactIds \ {lineage_ret.artifact_id} :
            /\ Direct(graph, "SPREAD_TO", lineage_ret.artifact_id, b)
            /\ Direct(graph, "SPREAD_TO", b, lineage_ret.artifact_id)

\* C38: after any sequence of start and stop calls at most one scheduler loop
\* is active, and no loop begins a batch after a stop that no start followed
\* (that is, while _running is False).
C38_OneLoopAndNoBatchAfterStop ==
    /\ Cardinality(ActiveLoops) <= 1
    /\ \A l \in Loops : ~scheduler.loops[l].began_stopped

\* C38 witness: stop and start were called while the first loop slept; the
\* scheduler is running and both loops are inside a batch at the same time.
C38_TwoLoopsInBatch ==
    /\ scheduler.running
    /\ scheduler.calls >= 3
    /\ \E l1, l2 \in Loops : l1 # l2 /\ InBatch(l1) /\ InBatch(l2)

====
